---- MODULE Spec2Model ----
(***************************************************************************)
(* State-machine model of VoiceCallService (src/services/voiceCallService.ts):*)
(* the call session state machine, the mediasoup setup sequence with its   *)
(* retry loop, the pending-producer queue and the cleanup paths.           *)
(*                                                                         *)
(* JavaScript is single threaded: a handler runs to its next await, so one *)
(* action of the model is the synchronous run of one handler (or of one    *)
(* continuation after an await settles).  Every suspended invocation is an *)
(* entry of `tasks` holding its position (pc) and its local variables.     *)
(***************************************************************************)
EXTENDS Integers, Sequences, FiniteSets, TLC

\* ------------------------------------------------------------------ bounds
NumCalls == 2          \* call ids the server can issue: 1..NumCalls
NumProducers == 2      \* remote producer ids: 1..NumProducers
MaxTasks == 2          \* suspended async invocations at a time
MaxTimers == 2         \* pending setTimeout(resetState) callbacks at a time
MaxPending == 2        \* length of the pendingProducers queue
MaxDuration == 1       \* duration ticks followed
MaxCount == 2          \* the request / consumer counters saturate here
MaxIntervals == 2      \* live setInterval timers followed
MaxEvents == 3         \* participant events followed per group call
NumRequests == 3       \* emitAsync requests followed one by one
MaxAudioTasks == 2     \* AudioService invocations in flight
MaxSockets == 3        \* sockets created by io()
MaxConnTasks == 2      \* connect() invocations in flight

\* ------------------------------------------------------- program constants
maxRetries == 2        \* setupMediasoupWithRetry(maxRetries = 2)

\* The users invited to the group call of the model (participantIds).
NumParticipants == 3

CallIds == 1..NumCalls
ProducerIds == 1..NumProducers
OneCall == {c \in CallIds : \A d \in CallIds : c <= d}   \* the first id
OneProducer == {p \in ProducerIds : \A q \in ProducerIds : p <= q}
UserIds == 1..NumParticipants

TerminalStatuses == {"ended", "rejected", "missed", "error"}
BusyStatuses == {"connecting", "ringing", "active"}

VARIABLES
    callState,         \* this.callState (callId 0 models null)
    media,             \* device, transports, producers, consumer, capture streams
    consumers,         \* this.consumers: producerId -> consumer ("none" = no entry)
    pendingProducers,  \* this.pendingProducers
    durationInterval,  \* this.durationInterval # null
    resetTimers,       \* pending setTimeout(() => this.resetState(), ...) callbacks
    tasks,             \* invocations suspended at an await
    orphans,           \* handles overwritten while still open (nobody can close them)
    emitted,           \* signaling messages sent by the last step, in order
    notified,          \* statuses passed to the call-state listeners by the last step
    incomingNotified,  \* the last step called the incoming-call listeners
    lastOp,            \* the handler / continuation the last step ran
    tags,              \* what the last step did to a media setup
    stepTask,          \* the invocation the last step resumed, as it was before the step
    endRequested,      \* calls for which call:end / call:leaveGroup has been sent
    wasQueued,         \* producers whose notification was put on pendingProducers
    calls,             \* server side: each call id is "free", "out" (we called) or "in"
    acceptedSent,      \* calls for which the server has pushed call:accepted
    producerCall,      \* server side: the call each remote producer belongs to (0: none)
    consumeReqs,       \* consume requests issued per producer on the current transport
    liveConsumers,     \* open consumers per producer on the current transport
    intervals,         \* setInterval timers of startDurationTimer that are not cleared
    partLog,           \* participant events pushed since the participants were seeded
    connected,         \* this.socket.connected
    requests,          \* emitAsync calls followed one by one: promise, timer, message
    audio,             \* AudioService: currentRoute, bluetoothAvailable, ...
    audioTasks,        \* AudioService invocations suspended at a native call
    audioStep,         \* what the last step did of a cycleAudioOutput call
    connection         \* connect(): the socket held, its listeners, invocations in flight

vars == << callState, media, consumers, pendingProducers, durationInterval,
           resetTimers, tasks, orphans, emitted, notified, incomingNotified,
           lastOp, tags, stepTask, endRequested, wasQueued, calls, acceptedSent, producerCall,
           consumeReqs, liveConsumers, intervals, partLog, connected, requests,
           audio, audioTasks, audioStep, connection >>

\* The variables of the call service.
serviceVars ==
    << callState, media, consumers, pendingProducers, durationInterval,
       resetTimers, tasks, orphans, emitted, notified, incomingNotified,
       lastOp, tags, stepTask, endRequested, wasQueued, calls, acceptedSent,
       producerCall, consumeReqs, liveConsumers, intervals, partLog, connected >>

\* ------------------------------------------------------------ default values
getDefaultState ==
    [ status |-> "idle", callId |-> 0, remoteUserId |-> 0, isCaller |-> FALSE,
      isMuted |-> FALSE, isPeerMuted |-> FALSE, duration |-> 0, error |-> "null",
      isGroupCall |-> FALSE, isVideoCall |-> FALSE, isCameraOn |-> FALSE,
      isPeerCameraOn |-> FALSE, groupName |-> 0, participants |-> <<>> ]

NullMedia ==
    [ device |-> "null", sendTransport |-> "null", recvTransport |-> "null",
      producer |-> "null", producerPaused |-> FALSE, videoProducer |-> "null",
      consumer |-> "null", localStream |-> "null", localVideoStream |-> "null" ]

NoConsumers == [p \in ProducerIds |-> "none"]
ZeroCount == [p \in ProducerIds |-> 0]

\* A suspended invocation: where it waits and its local variables.  `reply`
\* is the fate of the request it awaits: "open" (an acknowledgment can
\* arrive), "lost" (the socket disconnected after the request was sent: only
\* the 10 s timeout is left) or "refused" (emitAsync rejected at once).
NewTask(src, pc, cid, grp) ==
    [ src |-> src, pc |-> pc, callId |-> cid, isGroup |-> grp, attempt |-> 0,
      phase |-> "none", queue |-> <<>>, cur |-> 0, cons |-> "null",
      callee |-> 0, video |-> FALSE, stayed |-> TRUE, reply |-> "open" ]

\* The pcs at which an invocation awaits the acknowledgment of a request.
RequestPcs == {"accept", "reject", "forceCleanup", "initiate", "initiateGroup",
               "endCall", "rtpCaps", "createSend", "createRecv", "consume",
               "resume", "getExisting", "produceAudio", "produceVideo"}

\* What a step records of the invocation it resumes.
TaskInfo(t) == [src |-> t.src, attempt |-> t.attempt, stayed |-> t.stayed,
                refused |-> t.reply = "refused"]
NoTaskInfo == [src |-> "none", attempt |-> 0, stayed |-> FALSE, refused |-> FALSE]

\* The instance and its environment as one record, so that the synchronous
\* code of a handler is a composition of functions on it.  `running` is the
\* invocation the step runs; `refusing` says that emitAsync found the socket
\* disconnected in this step; `raised` that an exception is propagating.
Self ==
    [ callState |-> callState, media |-> media, consumers |-> consumers,
      pendingProducers |-> pendingProducers, durationInterval |-> durationInterval,
      resetTimers |-> resetTimers, tasks |-> tasks, orphans |-> orphans,
      emitted |-> emitted, notified |-> notified,
      incomingNotified |-> incomingNotified, lastOp |-> lastOp, tags |-> tags,
      stepTask |-> stepTask, endRequested |-> endRequested,
      wasQueued |-> wasQueued,
      calls |-> calls, acceptedSent |-> acceptedSent,
      producerCall |-> producerCall, consumeReqs |-> consumeReqs,
      liveConsumers |-> liveConsumers, intervals |-> intervals,
      partLog |-> partLog, connected |-> connected,
      running |-> 0, refusing |-> FALSE, raised |-> FALSE ]

\* The record at the start of a step: the per-step outputs are empty.
Begin(op, arg) ==
    [ Self EXCEPT !.emitted = <<>>, !.notified = <<>>, !.incomingNotified = FALSE,
                  !.lastOp = <<op, arg>>, !.tags = {}, !.stepTask = NoTaskInfo ]

B2N(b) == IF b THEN 1 ELSE 0
Merge(rec, partial) ==
    [f \in DOMAIN rec |-> IF f \in DOMAIN partial THEN partial[f] ELSE rec[f]]
Inc(n) == IF n < MaxCount THEN n + 1 ELSE n
ProducerKind(p) == IF p % 2 = 1 THEN "audio" ELSE "video"
Tag(w, t) == [w EXCEPT !.tags = @ \cup {t}]

\* An entry of result.participants as the client stores it: a status the
\* reply leaves out ("") is replaced by the default (p.status || dflt).
ToParticipant(p, dflt) ==
    [ userId |-> p.userId, isMuted |-> FALSE,
      status |-> IF p.status = "" THEN dflt ELSE p.status ]
MapParticipants(ps, dflt) == [k \in DOMAIN ps |-> ToParticipant(ps[k], dflt)]

\* The server's replies: call:initiateGroup lists the invited users,
\* call:joinGroup lists the initiator of the call (the caller of call c is
\* user c); neither names a status.
InvitedReply == [k \in UserIds |-> [userId |-> k, status |-> ""]]
JoinReply(c) == << [userId |-> c, status |-> ""] >>

\* participants.map(p => p.userId === u ? {...p, status} : p)
SetParticipantStatus(ps, u, st) ==
    [k \in DOMAIN ps |-> IF ps[k].userId = u THEN [ps[k] EXCEPT !.status = st] ELSE ps[k]]
HasParticipant(ps, u) == \E k \in DOMAIN ps : ps[k].userId = u

\* socket.emit: the message leaves the client (socket.io buffers it while
\* the socket is disconnected).
EmitNow(w, ev, cid, arg) ==
    [w EXCEPT !.emitted = Append(@, [event |-> ev, callId |-> cid, arg |-> arg]),
              !.endRequested = IF ev \in {"call:end", "call:leaveGroup"}
                               THEN @ \cup {cid} ELSE @]

\* emitAsync: on a disconnected socket nothing is sent and the promise is
\* rejected at once.
Emit(w, ev, cid, arg) ==
    IF w.connected
    THEN EmitNow(w, ev, cid, arg)
    ELSE [w EXCEPT !.refusing = TRUE]

\* A setup invocation remembers whether the status has been active ever since
\* it began (the precondition of the retry claims).
LeftActive(ts) == [i \in DOMAIN ts |-> [ts[i] EXCEPT !.stayed = FALSE]]

updateState(w, partial) ==
    LET cs == Merge(w.callState, partial) IN
    [w EXCEPT !.callState = cs,
              !.notified = Append(@, cs.status),
              !.tasks = IF cs.status = "active" THEN @ ELSE LeftActive(@)]

resetStateSync(w) ==
    [w EXCEPT !.callState = getDefaultState, !.tasks = LeftActive(@)]

resetState(w) ==
    [resetStateSync(w) EXCEPT !.notified = Append(@, "idle")]

\* clearInterval of the handle the field holds, if any.
stopDurationTimer(w) ==
    [w EXCEPT !.durationInterval = FALSE,
              !.intervals = IF w.durationInterval THEN @ - 1 ELSE @]

\* A start that would not clear the previous interval: the timer claim must
\* notice the second timer.
startDurationTimerKeepsOld(w) ==
    [w EXCEPT !.durationInterval = TRUE, !.intervals = @ + 1]

startDurationTimer(w) ==
    [stopDurationTimer(w) EXCEPT !.durationInterval = TRUE, !.intervals = @ + 1]

\* Closing a transport closes what was being produced or consumed on it
\* (mediasoup-client): a local handle a suspended invocation holds is closed.
CloseInFlight(ts) ==
    [i \in DOMAIN ts |->
        IF ts[i].cons = "open" THEN [ts[i] EXCEPT !.cons = "closed"] ELSE ts[i]]

\* A cleanup that would not stop the microphone capture: the retry claim
\* must notice the difference.
cleanupMediasoupKeepsCapture(w) ==
    [w EXCEPT !.media = [NullMedia EXCEPT !.localStream = w.media.localStream],
              !.consumers = NoConsumers,
              !.tasks = CloseInFlight(@),
              !.consumeReqs = ZeroCount, !.liveConsumers = ZeroCount]

\* cleanupMediasoup in one step: every handle is closed and nulled (the
\* statements and their try/catch blocks are cleanupMediasoupStmts below).
cleanupMediasoup(w) ==
    [w EXCEPT !.media = NullMedia, !.consumers = NoConsumers,
              !.tasks = CloseInFlight(@),
              !.consumeReqs = ZeroCount, !.liveConsumers = ZeroCount]

cleanupCall(w) ==
    [cleanupMediasoup(stopDurationTimer(w)) EXCEPT !.pendingProducers = <<>>]

\* cleanupMediasoup and cleanupCall statement by statement, with their
\* exceptions.  close() of a handle and stop() of a track of a stream throw
\* when the object is "broken"; they do nothing on one that is "closed".
\* A statement is skipped while an exception propagates; catch ends that.
\* A sequence of statements is a pipeline on the singleton set of the record.
Throws(h) == h = "broken"
Raise(w) == [w EXCEPT !.raised = TRUE]
Caught(w) == Tag([w EXCEPT !.raised = FALSE], "closeFailed")
Stmt(S, F(_)) == { IF x.raised THEN x ELSE F(x) : x \in S }
Only(S) == CHOOSE x \in S : TRUE

\* if (this.f) { this.f.close(); this.f = null; }
closeOrThrow(w, f) ==
    IF w.media[f] = "null" THEN w
    ELSE IF Throws(w.media[f]) THEN Raise(w)
    ELSE [w EXCEPT !.media[f] = "null"]

\* A close without its try/catch: the cleanup claim must notice the
\* exception that escapes.
closeHandleUncaught(w, f) == closeOrThrow(w, f)

\* try { if (this.f) { this.f.close(); this.f = null; } } catch { this.f = null; }
closeHandle(w, f) ==
    \* the catch block ends the exception and nulls the field
    IF closeOrThrow(w, f).raised
    THEN [Caught(w) EXCEPT !.media[f] = "null"]
    ELSE closeOrThrow(w, f)

\* try { c.close(); } catch {}   for the consumer of producer p
closeConsumer(w, p) ==
    IF w.consumers[p] = "none" THEN w
    ELSE IF Throws(w.consumers[p]) THEN Caught(Raise(w))
    ELSE [w EXCEPT !.consumers[p] = "closed"]

\* for (const [key, c] of this.consumers) { ... }
RECURSIVE closeEach(_, _)
closeEach(S, n) ==
    IF n = 0 THEN S
    ELSE closeEach(Stmt(S, LAMBDA x : closeConsumer(x, n)), n - 1)

\* this.consumers.clear();
clearConsumers(w) ==
    [w EXCEPT !.consumers = NoConsumers,
              !.consumeReqs = ZeroCount, !.liveConsumers = ZeroCount]

\* if (this.s) { try { ...track.stop()... } catch {}  this.s = null; }
stopTracks(w, s) ==
    IF w.media[s] = "null" THEN w
    ELSE IF Throws(w.media[s])
         THEN [Caught(Raise(w)) EXCEPT !.media[s] = "null"]
         ELSE [w EXCEPT !.media[s] = "null"]

\* this.device = null; what was produced or consumed on the transports is gone.
dropDevice(w) ==
    [w EXCEPT !.media.device = "null", !.media.producerPaused = FALSE,
              !.tasks = CloseInFlight(@)]

cleanupMediasoupStmts(S) ==
    LET s1 == Stmt(S, LAMBDA x : closeHandle(x, "producer"))
        s2 == Stmt(s1, LAMBDA x : closeHandle(x, "videoProducer"))
        s3 == Stmt(s2, LAMBDA x : closeHandle(x, "consumer"))
        s4 == Stmt(closeEach(s3, NumProducers), clearConsumers)
        s5 == Stmt(s4, LAMBDA x : closeHandle(x, "sendTransport"))
        s6 == Stmt(s5, LAMBDA x : closeHandle(x, "recvTransport"))
        s7 == Stmt(s6, LAMBDA x : stopTracks(x, "localStream"))
        s8 == Stmt(s7, LAMBDA x : stopTracks(x, "localVideoStream"))
    IN  Stmt(s8, dropDevice)

clearPending(w) == [w EXCEPT !.pendingProducers = <<>>]

cleanupCallStmts(w) ==
    Only(Stmt(cleanupMediasoupStmts(Stmt({w}, stopDurationTimer)), clearPending))

ScheduleReset(w) == [w EXCEPT !.resetTimers = @ + 1]

\* Assigning a handle field: a handle that is overwritten while open is lost.
Assign(w, field, val) ==
    [w EXCEPT !.media[field] = val,
              !.orphans = IF w.media[field] = "open" /\ field # "device"
                          THEN @ \cup {field} ELSE @]

\* ------------------------------------------------------------------- tasks
Spawn(w, t) == [w EXCEPT !.tasks = Append(@, t), !.running = Len(w.tasks) + 1]
SetPc(w, i, pc) == [w EXCEPT !.tasks[i].pc = pc]
Done(w, i) == SetPc(w, i, "done")
Sweep(ts) == SelectSeq(ts, LAMBDA t : t.pc # "done")


\* ------------------------------------------------- endCall and the catch blocks
EndEvent(grp) == IF grp THEN "call:leaveGroup" ELSE "call:end"

\* endCall() up to its await, run by invocation i.
endCallSync(w, i) ==
    LET cid == w.callState.callId
        grp == w.callState.isGroupCall
    IN  IF cid = 0
        THEN Done(resetState(cleanupCall(w)), i)
        ELSE LET w1 == cleanupCall(updateState(w, [status |-> "ended"]))
                 w2 == Emit(w1, EndEvent(grp), cid, 0)
             IN  [w2 EXCEPT !.tasks[i].pc = "endCall",
                            !.tasks[i].callId = cid,
                            !.tasks[i].isGroup = grp]

\* endCall() after call:end / call:leaveGroup settles: a rejected request is
\* repeated with socket.emit, then the reset timer is armed.
AfterEndCall(w, i, o) ==
    LET t == w.tasks[i]
        w1 == IF o = "reject" THEN EmitNow(w, EndEvent(t.isGroup), t.callId, 0) ELSE w
    IN  Done(ScheduleReset(w1), i)

\* The catch block around setupMediasoupWithRetry / call:accept.
HandlerFail(w, i) ==
    endCallSync(updateState(Tag(w, "handlerFail"),
                            [status |-> "error", error |-> "setup"]), i)

\* The catch block of setupMediasoupWithRetry and the throw after its loop.
SetupFail(w, i) ==
    LET w1 == cleanupMediasoup(Tag(w, "attemptFailed"))
    IN  IF w1.callState.status # "active"
        THEN HandlerFail(w1, i)
        ELSE IF w1.tasks[i].attempt < maxRetries
             THEN SetPc(w1, i, "backoff")
             ELSE HandlerFail(Tag(w1, "retriesExhausted"), i)

SetupDone(w, i) == Done(Tag(w, "setupComplete"), i)

\* ------------------------------------------------------- produceVideo / produceAudio
AfterProduceVideo(w, i, o) ==
    IF o = "ok" /\ w.tasks[i].cons = "open"
    THEN SetupDone(updateState(Assign(w, "videoProducer", "open"),
                               [isCameraOn |-> TRUE]), i)
    ELSE SetupDone(Tag(w, "videoFailed"), i)

\* A setup in which a failing camera would fail the attempt: the video claim
\* must notice the retry.
AfterGumVideoFatal(w, i, o) ==
    IF o # "ok"
    THEN SetupFail(Tag(w, "videoFailed"), i)
    ELSE [Emit(Assign(w, "localVideoStream", "open"), "produce", w.tasks[i].callId, 2)
            EXCEPT !.tasks[i].pc = "produceVideo", !.tasks[i].cons = "open"]

\* The camera capture request settled (permission and getUserMedia).  Every
\* error of produceVideo is caught by setupMediasoup: audio-only fallback.
AfterGumVideo(w, i, o) ==
    IF o # "ok"
    THEN SetupDone(Tag(w, "videoFailed"), i)
    ELSE LET w1 == Assign(w, "localVideoStream", "open")
         IN  IF w1.media.sendTransport = "null"
             THEN SetupDone(Tag(w1, "videoFailed"), i)
             ELSE [Emit(w1, "produce", w1.tasks[i].callId, 2)
                     EXCEPT !.tasks[i].pc = "produceVideo", !.tasks[i].cons = "open"]

AfterProduceAudio(w, i, o) ==
    IF o = "ok" /\ w.tasks[i].cons = "open"
    THEN LET w1 == [Assign(w, "producer", "open")
                      EXCEPT !.media.producerPaused = FALSE, !.tasks[i].cons = "null"]
         IN  IF w1.callState.isVideoCall
             THEN SetPc(w1, i, "gumVideo")
             ELSE SetupDone(w1, i)
    ELSE SetupFail(w, i)

\* The microphone capture request settled.
AfterGumAudio(w, i, o) ==
    IF o # "ok"
    THEN SetupFail(w, i)
    ELSE LET w1 == Assign(w, "localStream", "open")
         IN  IF w1.media.sendTransport = "null"
             THEN SetupFail(w1, i)
             ELSE [Emit(w1, "produce", w1.tasks[i].callId, 1)
                     EXCEPT !.tasks[i].pc = "produceAudio", !.tasks[i].cons = "open"]

\* setupMediasoup from the status guard before produceAudio.
BeginProduceAudio(w, i) ==
    IF w.callState.status # "active"
    THEN SetupFail(w, i)
    ELSE SetPc(w, i, "gumAudio")

\* ------------------------------------------------------------------ consuming
BeginGetExisting(w, i) ==
    [Emit(w, "getExistingProducers", w.tasks[i].callId, 0)
       EXCEPT !.tasks[i].pc = "getExisting", !.tasks[i].phase = "exist",
              !.tasks[i].queue = <<>>]

\* The loop over the producers to consume, up to the next await: the drain
\* of the queue, the loop of requestExistingProducers (which skips a producer
\* the consumers map holds), or the single producer of a call:newProducer.
\* consumeAudio / consumeVideo return at once without device or recvTransport.
RECURSIVE ConsumeNext(_, _)
ConsumeNext(w, i) ==
    LET t == w.tasks[i] IN
    IF t.queue = <<>>
    THEN CASE t.phase = "drain" -> BeginGetExisting(w, i)
           [] t.phase = "exist" -> BeginProduceAudio(w, i)
           [] OTHER -> Done(w, i)
    ELSE LET e == Head(t.queue)
             w1 == [w EXCEPT !.tasks[i].queue = Tail(@)]
         IN  IF t.phase = "exist" /\ w.consumers[e.producerId] # "none"
             THEN ConsumeNext(w1, i)
             ELSE IF w.media.device = "null" \/ w.media.recvTransport = "null"
                  THEN ConsumeNext(w1, i)
                  ELSE [Emit(w1, "consume", e.callId, e.producerId)
                          EXCEPT !.tasks[i].pc = "consume",
                                 !.tasks[i].cur = e.producerId,
                                 !.consumeReqs[e.producerId] = Inc(@)]

\* The consume request settled; recvTransport.consume() is called on the
\* field, which a cleanup may have set to null meanwhile (TypeError).
AfterConsume(w, i, o) ==
    IF o = "ok" /\ w.media.recvTransport # "null"
    THEN [w EXCEPT !.tasks[i].pc = "recvConsume", !.tasks[i].cons = "open"]
    ELSE ConsumeNext(w, i)

\* recvTransport.consume() settled: the consumer exists (paused).
AfterRecvConsume(w, i, o) ==
    LET t == w.tasks[i] IN
    IF o = "ok" /\ t.cons = "open"
    THEN [Emit(w, "resumeConsumer", t.callId, t.cur)
            EXCEPT !.tasks[i].pc = "resume",
                   !.liveConsumers[t.cur] = Inc(@)]
    ELSE ConsumeNext([w EXCEPT !.tasks[i].cons = "null"], i)

\* resumeConsumer settled: an error reply is only logged, a rejection throws.
AfterResume(w, i, o) ==
    LET t == w.tasks[i]
        w0 == [w EXCEPT !.tasks[i].cons = "null", !.tasks[i].cur = 0]
    IN  IF o = "reject"
        THEN ConsumeNext(w0, i)
        ELSE LET w1 == [w0 EXCEPT !.consumers[t.cur] = t.cons,
                                  !.media.consumer =
                                      IF ProducerKind(t.cur) = "audio" THEN t.cons ELSE @]
                 w2 == IF ProducerKind(t.cur) = "video"
                       THEN updateState(w1, [isPeerCameraOn |-> TRUE])
                       ELSE w1
             IN  ConsumeNext(w2, i)

\* The server's answer to getExistingProducers{callId}.
ExistingProducers(w, cid) ==
    SelectSeq([p \in ProducerIds |-> [callId |-> cid, producerId |-> p]],
              LAMBDA e : w.producerCall[e.producerId] = cid)

AfterGetExisting(w, i, o) ==
    IF o # "ok"
    THEN BeginProduceAudio(w, i)
    ELSE ConsumeNext([w EXCEPT !.tasks[i].queue =
                                  ExistingProducers(w, w.tasks[i].callId)], i)

\* ------------------------------------------------------------ setupMediasoup
\* createRecvTransport settled, then drainPendingProducers.
AfterCreateRecv(w, i, o) ==
    IF o # "ok" \/ w.media.device = "null"
    THEN SetupFail(w, i)
    ELSE LET w1 == Assign(w, "recvTransport", "open")
         IN  IF w1.pendingProducers = <<>>
             THEN BeginGetExisting(w1, i)
             ELSE ConsumeNext([w1 EXCEPT !.tasks[i].queue = w1.pendingProducers,
                                         !.tasks[i].phase = "drain",
                                         !.pendingProducers = <<>>], i)

AfterCreateSend(w, i, o) ==
    IF o # "ok" \/ w.media.device = "null"
    THEN SetupFail(w, i)
    ELSE LET w1 == Assign(w, "sendTransport", "open")
         IN  IF w1.callState.status # "active"
             THEN SetupFail(w1, i)
             ELSE SetPc(Emit(w1, "createTransport", w1.tasks[i].callId, 2),
                        i, "createRecv")

AfterLoad(w, i, o) ==
    IF o # "ok" \/ w.callState.status # "active"
    THEN SetupFail(w, i)
    ELSE SetPc(Emit(w, "createTransport", w.tasks[i].callId, 1), i, "createSend")

AfterRtpCaps(w, i, o) ==
    IF o # "ok"
    THEN SetupFail(w, i)
    ELSE SetPc(Assign(w, "device", "open"), i, "load")

\* setupMediasoup up to its first await.
BeginSetupMediasoup(w, i) ==
    IF w.callState.callId = 0
    THEN SetupFail(w, i)
    ELSE [Emit(Tag(w, "attemptStart"), "getRouterRtpCapabilities", 0, 0)
            EXCEPT !.tasks[i].pc = "rtpCaps",
                   !.tasks[i].callId = w.callState.callId,
                   !.tasks[i].phase = "none", !.tasks[i].queue = <<>>]

\* setupMediasoupWithRetry: the first pass of the loop ...
BeginSetupWithRetry(w, i) ==
    BeginSetupMediasoup([w EXCEPT !.tasks[i].attempt = 1, !.tasks[i].stayed = TRUE], i)

\* ... and the next pass, after the 1 s backoff.
AfterBackoff(w, i) ==
    BeginSetupMediasoup([Tag(w, "retry") EXCEPT !.tasks[i].attempt = @ + 1], i)


\* ------------------------------------------- acceptCall / rejectCall / initiateCall
\* acceptCall after call:accept / call:joinGroup settles.
AfterAccept(w, i, o) ==
    IF o # "ok"
    THEN HandlerFail(w, i)
    ELSE LET t == w.tasks[i]
             w1 == IF t.isGroup
                   THEN updateState(w, [status |-> "active",
                                        participants |->
                                            MapParticipants(JoinReply(t.callId), "active")])
                   ELSE updateState(w, [status |-> "active"])
         IN  BeginSetupWithRetry(startDurationTimer(w1), i)

\* rejectCall after call:reject settles (a failure is only logged).
AfterReject(w, i, o) ==
    Done(ScheduleReset(cleanupCall(updateState(w, [status |-> "rejected"]))), i)

\* initiateCall / initiateGroupCall after call:forceCleanup settles (a
\* failure is non-fatal).
AfterForceCleanup(w, i, o) ==
    LET t == w.tasks[i] IN
    IF t.src = "initiateGroupCall"
    THEN LET w1 == updateState(w, [status |-> "connecting", remoteUserId |-> 0,
                                   isCaller |-> TRUE, error |-> "null",
                                   isMuted |-> FALSE, isPeerMuted |-> FALSE,
                                   duration |-> 0, isGroupCall |-> TRUE,
                                   isVideoCall |-> t.video, groupName |-> 1,
                                   participants |-> <<>>])
         IN  SetPc(Emit(w1, "call:initiateGroup", 0, 0), i, "initiateGroup")
    ELSE LET w1 == updateState(w, [status |-> "connecting", remoteUserId |-> t.callee,
                                   isCaller |-> TRUE, error |-> "null",
                                   isMuted |-> FALSE, isPeerMuted |-> FALSE,
                                   duration |-> 0, isVideoCall |-> t.video])
         IN  SetPc(Emit(w1, "call:initiate", 0, t.callee), i, "initiate")

\* initiateCall after call:initiate settles: an error reply, a rejection
\* (caught: only a call still connecting is set to error), or the call id c.
AfterInitiate(w, i, o, c) ==
    CASE o = "error" ->
           Done(ScheduleReset(updateState(w, [status |-> "error",
                                              error |-> "initiate"])), i)
      [] o = "reject" ->
           IF w.callState.status = "connecting"
           THEN Done(ScheduleReset(updateState(w, [status |-> "error",
                                                   error |-> "initiate"])), i)
           ELSE Done(w, i)
      [] OTHER ->
           Done([updateState(w, [status |-> "ringing", callId |-> c])
                   EXCEPT !.calls[c] = "out"], i)

\* A group initiation that would wait for an answer like a 1:1 call: the group
\* claim must notice the ringing status.
AfterInitiateGroupRings(w, i, o, c) ==
    IF o = "ok"
    THEN Done([updateState(w, [status |-> "ringing", callId |-> c])
                 EXCEPT !.calls[c] = "group"], i)
    ELSE Done(ScheduleReset(updateState(w, [status |-> "error",
                                            error |-> "initiate"])), i)

\* initiateGroupCall after call:initiateGroup settles: the initiator goes
\* from connecting to active and runs the media setup.
AfterInitiateGroup(w, i, o, c) ==
    CASE o = "error" ->
           Done(ScheduleReset(updateState(w, [status |-> "error",
                                              error |-> "initiate"])), i)
      [] o = "reject" ->
           IF w.callState.status = "connecting"
           THEN Done(ScheduleReset(updateState(w, [status |-> "error",
                                                   error |-> "initiate"])), i)
           ELSE Done(w, i)
      [] OTHER ->
           LET w1 == [updateState(w, [status |-> "active", callId |-> c,
                                      participants |->
                                          MapParticipants(InvitedReply, "ringing")])
                        EXCEPT !.calls[c] = "group", !.partLog = <<>>]
           IN  BeginSetupWithRetry(startDurationTimer(w1), i)

\* ------------------------------------------------------ resuming an invocation
EmitOutcomes == {"ok", "error", "reject"}   \* reply, reply with error, timeout
LibOutcomes == {"ok", "reject"}             \* a promise of a library / the device

Outcomes(pc) ==
    CASE pc \in {"load", "recvConsume", "gumAudio", "produceAudio", "gumVideo",
                 "produceVideo"} -> LibOutcomes
      [] pc = "backoff" -> {"ok"}
      [] OTHER -> EmitOutcomes

Continue(w, i, o, c) ==
    LET pc == w.tasks[i].pc IN
    CASE pc = "accept" -> AfterAccept(w, i, o)
      [] pc = "reject" -> AfterReject(w, i, o)
      [] pc = "forceCleanup" -> AfterForceCleanup(w, i, o)
      [] pc = "initiate" -> AfterInitiate(w, i, o, c)
      [] pc = "initiateGroup" -> AfterInitiateGroup(w, i, o, c)
      [] pc = "endCall" -> AfterEndCall(w, i, o)
      [] pc = "rtpCaps" -> AfterRtpCaps(w, i, o)
      [] pc = "load" -> AfterLoad(w, i, o)
      [] pc = "createSend" -> AfterCreateSend(w, i, o)
      [] pc = "createRecv" -> AfterCreateRecv(w, i, o)
      [] pc = "consume" -> AfterConsume(w, i, o)
      [] pc = "recvConsume" -> AfterRecvConsume(w, i, o)
      [] pc = "resume" -> AfterResume(w, i, o)
      [] pc = "getExisting" -> AfterGetExisting(w, i, o)
      [] pc = "gumAudio" -> AfterGumAudio(w, i, o)
      [] pc = "produceAudio" -> AfterProduceAudio(w, i, o)
      [] pc = "gumVideo" -> AfterGumVideo(w, i, o)
      [] pc = "produceVideo" -> AfterProduceVideo(w, i, o)
      [] pc = "backoff" -> AfterBackoff(w, i)
      [] OTHER -> w

\* ------------------------------------------------------------------ handlers
\* socket.on('call:incoming')
onIncoming(w, d) ==
    LET cs == w.callState IN
    IF cs.status \in {"active", "connecting"} \/ (cs.status = "ringing" /\ cs.isCaller)
    THEN EmitNow(w, "call:reject", d.callId, 0)
    ELSE [updateState(w, [status |-> "ringing", callId |-> d.callId,
                                  remoteUserId |-> d.callerId, isCaller |-> FALSE,
                                  error |-> "null", isGroupCall |-> d.isGroup,
                                  groupName |-> d.groupName,
                                  isVideoCall |-> d.isVideoCall])
            EXCEPT !.incomingNotified = TRUE]

\* socket.on('call:accepted')
onAccepted(w, c) ==
    IF w.callState.callId # c
    THEN w
    ELSE LET w1 == startDurationTimer(updateState(w, [status |-> "active"]))
             w2 == Spawn(w1, NewTask("accepted", "start", c, FALSE))
         IN  BeginSetupWithRetry(w2, Len(w2.tasks))

\* socket.on('call:rejected' | 'call:ended' | 'call:timeout'): the event's
\* callId is only logged.
onTerminal(w, status) ==
    ScheduleReset(cleanupCall(updateState(w, [status |-> status])))

\* socket.on('call:newProducer')
onNewProducer(w, c, p) ==
    IF w.callState.status # "active"
       \/ w.media.device = "null" \/ w.media.recvTransport = "null"
    THEN [w EXCEPT !.pendingProducers = Append(@, [callId |-> c, producerId |-> p]),
                   !.wasQueued = @ \cup {p}]
    ELSE LET t == [NewTask("newProducer", "start", c, FALSE)
                     EXCEPT !.phase = "push",
                            !.queue = <<[callId |-> c, producerId |-> p]>>]
             w1 == Spawn(w, t)
         IN  ConsumeNext(w1, Len(w1.tasks))

\* socket.on('disconnect').  The acknowledgment of a request that is pending
\* can no longer arrive.
LoseReplies(ts) ==
    [i \in DOMAIN ts |->
        IF ts[i].pc \in RequestPcs /\ ts[i].reply = "open"
        THEN [ts[i] EXCEPT !.reply = "lost"] ELSE ts[i]]

\* A disconnect handler that would not look at the status: the disconnect
\* claim must notice the advisory text set outside a call.
onDisconnectAnyStatus(w) ==
    cleanupMediasoup(updateState([w EXCEPT !.connected = FALSE,
                                           !.tasks = LoseReplies(@)],
                                 [error |-> "lost"]))

onDisconnect(w) ==
    LET w1 == [w EXCEPT !.connected = FALSE, !.tasks = LoseReplies(@)]
    IN  IF w1.callState.status \in {"active", "ringing"}
        THEN cleanupMediasoup(updateState(w1, [error |-> "lost"]))
        ELSE w1

\* socket.on('connect')
onConnect(w) ==
    LET w1 == [w EXCEPT !.connected = TRUE]
    IN  IF w1.callState.error = "lost"
        THEN updateState(w1, [error |-> "null"])
        ELSE w1

\* A handler that would not compare the callId: the peer claim must notice
\* an event of another call taking effect.
onPeerDisconnectedAnyCall(w, c) ==
    updateState(w, [error |-> "peer", isPeerMuted |-> TRUE])

\* socket.on('call:peerDisconnected')
onPeerDisconnected(w, c) ==
    IF w.callState.callId # c
    THEN w
    ELSE updateState(w, [error |-> "peer", isPeerMuted |-> TRUE])

\* socket.on('call:peerReconnected')
onPeerReconnected(w, c) ==
    IF w.callState.callId # c
    THEN w
    ELSE updateState(w, [error |-> "null", isPeerMuted |-> FALSE])

\* socket.on('call:peerMuteChanged'): the event's callId is not looked at.
onPeerMuteChanged(w, u, m) ==
    IF w.callState.isGroupCall
    THEN updateState(w, [participants |->
                           [k \in DOMAIN w.callState.participants |->
                              IF w.callState.participants[k].userId = u
                              THEN [w.callState.participants[k] EXCEPT !.isMuted = m]
                              ELSE w.callState.participants[k]]])
    ELSE updateState(w, [isPeerMuted |-> m])

\* A rejoin that would treat the call as a new one (duration and mute state
\* reset): the rejoin claim must notice.
onRejoinAsNewCall(w, d) ==
    LET w1 == updateState(w, [status |-> "active", callId |-> d.callId,
                              remoteUserId |-> d.remoteUserId,
                              isCaller |-> d.isCaller,
                              isVideoCall |-> d.isVideoCall, error |-> "null",
                              duration |-> 0, isMuted |-> FALSE])
        w2 == Spawn(startDurationTimer(w1), NewTask("rejoin", "start", d.callId, FALSE))
    IN  BeginSetupWithRetry(w2, Len(w2.tasks))

\* socket.on('call:rejoin')
onRejoin(w, d) ==
    LET w1 == updateState(w, [status |-> "active", callId |-> d.callId,
                              remoteUserId |-> d.remoteUserId,
                              isCaller |-> d.isCaller,
                              isVideoCall |-> d.isVideoCall, error |-> "null"])
        w2 == Spawn(startDurationTimer(w1), NewTask("rejoin", "start", d.callId, FALSE))
    IN  BeginSetupWithRetry(w2, Len(w2.tasks))

\* initiateCall up to its first await.  connect() returns at once on a
\* connected socket.  The throw of the busy check is caught by initiateCall's
\* own catch block, which sets a call that is connecting to error.
initiateCall(w, callee, video) ==
    IF w.callState.status \in BusyStatuses
    THEN IF w.callState.status = "connecting"
         THEN ScheduleReset(updateState(w, [status |-> "error", error |-> "busy"]))
         ELSE w
    ELSE LET w1 == resetStateSync(cleanupCall(w))
             t == [NewTask("initiateCall", "forceCleanup", 0, FALSE)
                     EXCEPT !.callee = callee, !.video = video]
         IN  Emit(Spawn(w1, t), "call:forceCleanup", 0, 0)

\* initiateGroupCall up to its first await: as initiateCall.
initiateGroupCall(w, video) ==
    IF w.callState.status \in BusyStatuses
    THEN IF w.callState.status = "connecting"
         THEN ScheduleReset(updateState(w, [status |-> "error", error |-> "busy"]))
         ELSE w
    ELSE LET w1 == resetStateSync(cleanupCall(w))
             t == [NewTask("initiateGroupCall", "forceCleanup", 0, TRUE)
                     EXCEPT !.video = video]
         IN  Emit(Spawn(w1, t), "call:forceCleanup", 0, 0)

\* A handler that would add every joining user to the list, known or not:
\* the group claim must notice the duplicate entry.
onParticipantJoinedAppends(w, c, u) ==
    LET cs == w.callState IN
    IF ~cs.isGroupCall \/ cs.callId # c
    THEN w
    ELSE updateState(w, [participants |->
                             Append(cs.participants,
                                    [userId |-> u, isMuted |-> FALSE,
                                     status |-> "active"])])

\* socket.on('call:participantJoined')
onParticipantJoined(w, c, u) ==
    LET cs == w.callState IN
    IF ~cs.isGroupCall \/ cs.callId # c
    THEN w
    ELSE IF HasParticipant(cs.participants, u)
         THEN updateState(w, [participants |->
                                  SetParticipantStatus(cs.participants, u, "active")])
         ELSE updateState(w, [participants |->
                                  Append(cs.participants,
                                         [userId |-> u, isMuted |-> FALSE,
                                          status |-> "active"])])

\* socket.on('call:participantLeft'); removeConsumerForUser has an empty body.
onParticipantLeft(w, c, u) ==
    LET cs == w.callState IN
    IF ~cs.isGroupCall \/ cs.callId # c
    THEN w
    ELSE updateState(w, [participants |->
                             SelectSeq(cs.participants, LAMBDA p : p.userId # u)])

\* A handler that would end the call once every invited user has declined:
\* the frame claim must notice the local status changing.
onParticipantDeclinedEndsCall(w, c, u) ==
    LET cs == w.callState
        ps == SetParticipantStatus(cs.participants, u, "declined")
    IN  IF ~cs.isGroupCall \/ cs.callId # c
        THEN w
        ELSE IF \A k \in DOMAIN ps : ps[k].status = "declined"
             THEN updateState(w, [participants |-> ps, status |-> "ended"])
             ELSE updateState(w, [participants |-> ps])

\* socket.on('call:participantDeclined')
onParticipantDeclined(w, c, u) ==
    LET cs == w.callState IN
    IF ~cs.isGroupCall \/ cs.callId # c
    THEN w
    ELSE updateState(w, [participants |->
                             SetParticipantStatus(cs.participants, u, "declined")])

\* acceptCall up to its first await.
acceptCall(w) ==
    LET cs == w.callState IN
    IF cs.callId = 0 \/ cs.status # "ringing"
    THEN w
    ELSE Emit(Spawn(w, NewTask("acceptCall", "accept", cs.callId, cs.isGroupCall)),
              IF cs.isGroupCall THEN "call:joinGroup" ELSE "call:accept",
              cs.callId, 0)

\* rejectCall up to its first await.
rejectCall(w) ==
    IF w.callState.callId = 0
    THEN resetState(w)
    ELSE Emit(Spawn(w, NewTask("rejectCall", "reject", w.callState.callId, FALSE)),
              "call:reject", w.callState.callId, 0)

\* endCall called by the user.
endCall(w) ==
    LET w1 == Spawn(w, NewTask("endCall", "start", 0, FALSE))
    IN  endCallSync(w1, Len(w1.tasks))

toggleMute(w) ==
    IF w.callState.status # "active"
    THEN w
    ELSE LET newMuted == ~w.callState.isMuted
             w1 == updateState(w, [isMuted |-> newMuted])
             w2 == IF w1.media.producer # "null"
                   THEN [w1 EXCEPT !.media.producerPaused = newMuted]
                   ELSE w1
         IN  IF w2.callState.callId # 0
             THEN EmitNow(w2, "call:toggleMute", w2.callState.callId, B2N(newMuted))
             ELSE w2

\* A tick that would not look at the status: the duration claim must notice.
durationTickAnyStatus(w) ==
    updateState(w, [duration |-> w.callState.duration + 1])

\* The setInterval callback of startDurationTimer.
durationTick(w) ==
    IF w.callState.status = "active"
    THEN updateState(w, [duration |-> w.callState.duration + 1])
    ELSE w

\* -------------------------------------------------------------------- actions
\* The invocation that ran the step awaits a request that emitAsync refused.
MarkRefused(w) ==
    IF w.refusing /\ w.running \in DOMAIN w.tasks
    THEN [w.tasks EXCEPT ![w.running].reply = "refused"]
    ELSE w.tasks

\* The end of a step: `step` is the record the handler returns.  A promise
\* that was rejected at once is continued before any other event is handled.
CommitService(step) ==
    \E w \in {step} :
    LET ts == Sweep(MarkRefused(w)) IN
    /\ (\E i \in DOMAIN tasks : tasks[i].reply = "refused") => w.stepTask.refused
    /\ Len(ts) <= MaxTasks
    /\ w.resetTimers <= MaxTimers
    /\ Len(w.pendingProducers) <= MaxPending
    /\ w.callState.duration <= MaxDuration
    /\ w.intervals <= MaxIntervals
    /\ Len(w.partLog) <= MaxEvents
    /\ callState' = w.callState
    /\ media' = w.media
    /\ consumers' = w.consumers
    /\ pendingProducers' = w.pendingProducers
    /\ durationInterval' = w.durationInterval
    /\ resetTimers' = w.resetTimers
    /\ tasks' = ts
    /\ orphans' = w.orphans
    /\ emitted' = w.emitted
    /\ notified' = w.notified
    /\ incomingNotified' = w.incomingNotified
    /\ lastOp' = w.lastOp
    /\ tags' = w.tags
    /\ stepTask' = w.stepTask
    /\ endRequested' = w.endRequested
    /\ wasQueued' = w.wasQueued
    /\ calls' = w.calls
    /\ acceptedSent' = w.acceptedSent
    /\ producerCall' = w.producerCall
    /\ consumeReqs' = w.consumeReqs
    /\ liveConsumers' = w.liveConsumers
    /\ intervals' = w.intervals
    /\ partLog' = w.partLog
    /\ connected' = w.connected
    /\ UNCHANGED << requests, audio, audioTasks, audioStep >>

\* ... of a handler that has nothing to do with connect().
Commit(step) == CommitService(step) /\ UNCHANGED connection

\* An await settles and the invocation runs to its next await (or ends).
\* The server issues call ids in increasing order.
FreeCalls == {c \in CallIds : calls[c] = "free"}
NextCallId == CHOOSE c \in FreeCalls : \A d \in FreeCalls : c <= d

Issuable(ids) == FreeCalls # {} /\ NextCallId \in ids

\* An await of an invocation waiting at one of `pcs` settles with one of
\* `outs`, and the invocation runs to its next await (or to its end).
Settles(t, outs) ==
    CASE t.reply = "refused" -> {"reject"}
      [] t.reply = "lost" -> {"reject"} \cap outs
      [] OTHER -> Outcomes(t.pc) \cap outs

Settle(ids, pcs, outs) ==
    \E i \in DOMAIN tasks :
      \E o \in Settles(tasks[i], outs) :
        /\ tasks[i].pc \in pcs
        /\ tasks[i].pc \in {"initiate", "initiateGroup"} /\ o = "ok" => Issuable(ids)
        /\ LET c == IF FreeCalls # {} THEN NextCallId ELSE 0
               w == [Begin(tasks[i].pc, 0) EXCEPT !.stepTask = TaskInfo(tasks[i]),
                                                  !.running = i,
                                                  !.tasks[i].reply = "open"]
           IN  Commit(Continue(w, i, o, c))

Pcs == {"accept", "reject", "forceCleanup", "initiate", "initiateGroup",
        "endCall", "rtpCaps",
        "load", "createSend", "createRecv", "consume", "recvConsume", "resume",
        "getExisting", "gumAudio", "produceAudio", "gumVideo", "produceVideo",
        "backoff"}
Resume(ids) == Settle(ids, Pcs, EmitOutcomes)      \* any outcome
Replies(ids) == Settle(ids, Pcs, {"ok"})           \* the await resolves
Failures(pcs) == Settle({}, pcs, {"error", "reject"})

InitiateCall(vids) ==
    \E callee \in OneCall, video \in vids :
      connected /\ Commit(initiateCall(Begin("initiateCall", callee), callee, video))

InitiateGroupCall(vids) ==
    \E video \in vids :
      connected /\ Commit(initiateGroupCall(Begin("initiateGroupCall", 0), video))

AcceptCall == Commit(acceptCall(Begin("acceptCall", 0)))
RejectCall == Commit(rejectCall(Begin("rejectCall", 0)))
EndCall == Commit(endCall(Begin("endCall", 0)))

\* A user who does not press a button again while the request of the
\* previous press is still pending.
InFlight(src) == \E i \in DOMAIN tasks : tasks[i].src = src
UserAccepts == ~InFlight("acceptCall") /\ AcceptCall
UserRejects == ~InFlight("rejectCall") /\ RejectCall
UserEnds == ~InFlight("endCall") /\ EndCall
UserInitiates(vids) == ~InFlight("initiateCall") /\ InitiateCall(vids)
UserInitiatesGroup(vids) ==
    ~InFlight("initiateCall") /\ ~InFlight("initiateGroupCall") /\ InitiateGroupCall(vids)
ToggleMute == Commit(toggleMute(Begin("toggleMute", 0)))

\* Two toggleMute calls in a row, nothing running in between.
ToggleMuteTwice == Commit(toggleMute(toggleMute(Begin("toggleMuteTwice", 0))))

\* The server pushes call:incoming for a call it has just created.
OnIncoming(ids, grps, vids) ==
    \E grp \in grps, video \in vids :
      /\ Issuable(ids)
      /\ LET c == NextCallId
             d == [callId |-> c, callerId |-> c, isGroup |-> grp,
                   groupName |-> B2N(grp), isVideoCall |-> video]
             w == [Begin("call:incoming", c) EXCEPT !.calls[c] = "in"]
         IN  Commit(onIncoming(w, d))

\* The server pushes call:accepted once, for a call this client initiated.
ServerAccepted ==
    \E c \in CallIds :
      /\ calls[c] = "out" /\ c \notin acceptedSent
      /\ Commit(onAccepted([Begin("call:accepted", c)
                              EXCEPT !.acceptedSent = @ \cup {c}], c))

\* A call:accepted the client has already received is delivered once more.
DuplicateAccepted ==
    \E c \in acceptedSent :
      Commit(onAccepted(Begin("call:accepted", c), c))

\* ------------------------------------------------------------------ emitAsync
\* One emitAsync call: its promise ("unused" before the call, then "pending",
\* "resolved" or "rejected"), the value or error it settled with, whether the
\* message was sent, whether its 10 s timer is armed, the acknowledgment that
\* has arrived ("" = not yet) and the number of resolve / reject calls made.
RequestIds == 1..NumRequests
NewRequest ==
    [ state |-> "unused", value |-> "", error |-> "", sent |-> FALSE,
      timer |-> FALSE, ack |-> "", fired |-> FALSE, settleCalls |-> 0 ]

\* A resolve that would replace the outcome of a settled promise: the
\* request claim must notice a late acknowledgment taking effect.
PromiseResolveAlways(q, v) ==
    [q EXCEPT !.state = "resolved", !.value = v, !.error = "",
              !.settleCalls = @ + 1]

\* resolve / reject of a Promise: only the first call has an effect.
PromiseResolve(q, v) ==
    IF q.state = "pending"
    THEN [q EXCEPT !.state = "resolved", !.value = v, !.settleCalls = @ + 1]
    ELSE [q EXCEPT !.settleCalls = @ + 1]

PromiseReject(q, e) ==
    IF q.state = "pending"
    THEN [q EXCEPT !.state = "rejected", !.error = e, !.settleCalls = @ + 1]
    ELSE [q EXCEPT !.settleCalls = @ + 1]

\* response || {}
ReplyOrEmpty(response) == IF response = "undefined" THEN "{}" ELSE response

\* The executor of emitAsync's promise.
emitAsync(q, conn) ==
    LET p == [q EXCEPT !.state = "pending"]
    IN  IF ~conn
        THEN PromiseReject(p, "not connected")
        ELSE [p EXCEPT !.timer = TRUE, !.sent = TRUE]

\* The setTimeout callback of emitAsync.
onRequestTimeout(q) ==
    PromiseReject([q EXCEPT !.timer = FALSE, !.fired = TRUE], "timed out")

\* The acknowledgment callback of emitAsync.
onAck(q, response) ==
    PromiseResolve([q EXCEPT !.timer = FALSE, !.ack = response],
                   ReplyOrEmpty(response))

AckValues == {"reply", "undefined"}

\* The service calls emitAsync for the next request.
EmitAsync ==
    \E r \in RequestIds :
      /\ requests[r].state = "unused"
      /\ \A k \in RequestIds : k < r => requests[k].state # "unused"
      /\ requests' = [requests EXCEPT ![r] = emitAsync(@, connected)]
      /\ UNCHANGED << serviceVars, audio, audioTasks, audioStep, connection >>

\* The 10 s timer of a request fires.
RequestTimeout ==
    \E r \in RequestIds :
      /\ requests[r].timer
      /\ requests' = [requests EXCEPT ![r] = onRequestTimeout(@)]
      /\ UNCHANGED << serviceVars, audio, audioTasks, audioStep, connection >>

\* The server's acknowledgment of a request that was sent arrives (once).
AckArrives ==
    \E r \in RequestIds, response \in AckValues :
      /\ requests[r].sent /\ requests[r].ack = ""
      /\ requests' = [requests EXCEPT ![r] = onAck(@, response)]
      /\ UNCHANGED << serviceVars, audio, audioTasks, audioStep, connection >>

\* The socket loses its connection / socket.io reconnects it.
SocketDisconnect == connected /\ Commit(onDisconnect(Begin("disconnect", 0)))
SocketConnect == ~connected /\ Commit(onConnect(Begin("connect", 0)))

\* The server pushes call:rejoin for a call of this client.
OnRejoin(ids, vids) ==
    \E c \in ids, video \in vids :
      /\ connected /\ calls[c] # "free"
      /\ LET d == [callId |-> c, remoteUserId |-> c, isCaller |-> calls[c] # "in",
                   isVideoCall |-> video]
         IN  Commit(onRejoin(Begin("call:rejoin", c), d))

\* The server pushes a participant event of the group call this client is in.
ParticipantEvent(kind, u) ==
    [Begin(kind, u) EXCEPT !.partLog = Append(@, [kind |-> kind, userId |-> u])]
InGroupCall == callState.callId # 0 /\ calls[callState.callId] = "group"

OnParticipantJoined(us) ==
    \E u \in us :
      /\ InGroupCall
      /\ Commit(onParticipantJoined(ParticipantEvent("call:participantJoined", u),
                                    callState.callId, u))
OnParticipantLeft(us) ==
    \E u \in us :
      /\ InGroupCall
      /\ Commit(onParticipantLeft(ParticipantEvent("call:participantLeft", u),
                                  callState.callId, u))
OnParticipantDeclined(us) ==
    \E u \in us :
      /\ InGroupCall
      /\ Commit(onParticipantDeclined(ParticipantEvent("call:participantDeclined", u),
                                      callState.callId, u))

\* The server pushes a participant event that names some call and some user,
\* whatever call this client is in.
OnParticipantJoinedIn(ids, us) ==
    \E c \in ids, u \in us :
      Commit(onParticipantJoined(Begin("call:participantJoined", c), c, u))
OnParticipantLeftIn(ids, us) ==
    \E c \in ids, u \in us :
      Commit(onParticipantLeft(Begin("call:participantLeft", c), c, u))
OnParticipantDeclinedIn(ids, us) ==
    \E c \in ids, u \in us :
      Commit(onParticipantDeclined(Begin("call:participantDeclined", c), c, u))

\* The server pushes call:peerDisconnected / call:peerReconnected with the id
\* of some call.
\* What the screen showed of the peer when the step began.
NotePeer(w) ==
    [w EXCEPT !.tags = @ \cup (IF w.callState.isPeerMuted THEN {"peerWasMuted"} ELSE {})
                         \cup (IF w.callState.error # "null" THEN {"hadError"} ELSE {})]

OnPeerDisconnected(ids) ==
    \E c \in ids :
      Commit(onPeerDisconnected(NotePeer(Begin("call:peerDisconnected", c)), c))
OnPeerMuteChanged(us) ==
    \E u \in us, m \in BOOLEAN :
      Commit(onPeerMuteChanged(Begin("call:peerMuteChanged", u), u, m))
OnPeerReconnected(ids) ==
    \E c \in ids : Commit(onPeerReconnected(Begin("call:peerReconnected", c), c))

\* The server pushes call:rejected / call:ended / call:timeout for a call of
\* this client.
OnRejected == \E c \in CallIds :
    calls[c] # "free" /\ Commit(onTerminal(Begin("call:rejected", c), "rejected"))
OnEnded == \E c \in CallIds :
    calls[c] # "free" /\ Commit(onTerminal(Begin("call:ended", c), "ended"))
OnTimeout == \E c \in CallIds :
    calls[c] # "free" /\ Commit(onTerminal(Begin("call:timeout", c), "missed"))

\* The peer starts producing in the current call: the server registers the
\* producer and pushes call:newProducer.
PeerProduces(ps) ==
    \E p \in ps :
      /\ producerCall[p] = 0 /\ callState.callId # 0
      /\ LET c == callState.callId
             w == [Begin("call:newProducer", p) EXCEPT !.producerCall[p] = c]
         IN  Commit(onNewProducer(w, c, p))

\* The notification of a producer the server holds is delivered once more.
DuplicatePush(ps) ==
    \E p \in ps :
      /\ producerCall[p] # 0 /\ producerCall[p] = callState.callId
      /\ Commit(onNewProducer(Begin("call:newProducer", p), producerCall[p], p))

ResetTimerFires ==
    /\ resetTimers > 0
    /\ Commit(resetState([Begin("resetTimer", 0) EXCEPT !.resetTimers = @ - 1]))

DurationTick ==
    /\ intervals > 0
    /\ Commit(durationTick(Begin("durationTick", 0)))

\* ------------------------------------------------------------ AudioService
\* The audio output routes (AudioOutputRoute).
Routes == {"earpiece", "speaker", "bluetooth"}

\* An AudioDeviceStatus as the native layer resolves or emits it. list tells
\* whether availableAudioDeviceList names BLUETOOTH ("bt" / "nobt") or is
\* absent ("none"); selected is selectedAudioDevice ("" absent); ok = FALSE
\* is a native call that rejects.
DeviceLists == {"bt", "nobt", "none"}
SelectedDevices == {"BLUETOOTH", "SPEAKER_PHONE", "EARPIECE", "WIRED_HEADSET", ""}
AudioDeviceStatus == [ok : {TRUE}, list : DeviceLists, selected : SelectedDevices]
NativeFailure == [ok |-> FALSE, list |-> "none", selected |-> ""]
NativeResults == AudioDeviceStatus \cup {NativeFailure}

\* The fields of the service after construction.
NewAudioService ==
    [ currentRoute |-> "earpiece", bluetoothAvailable |-> FALSE,
      inCallManagerStarted |-> FALSE, btDetectionTimer |-> FALSE,
      notifiedRoute |-> "none" ]

\* An invocation suspended at a native call; next is the route of the
\* setAudioRoute call (nextRoute of a cycle).
NewAudioTask(op, pc, route) == [ op |-> op, pc |-> pc, next |-> route ]

\* What a step did of a cycleAudioOutput call: pc "refresh" is the step
\* that ends refreshAvailableDevices and computes nextRoute (refresh tells
\* how the refresh ended, next is nextRoute), pc "return" the step that
\* returns (next is the route that was asked for, ret the value returned).
\* Any other step leaves NoAudioStep.
NoAudioStep == [ pc |-> "none", refresh |-> "none", next |-> "none", ret |-> "none" ]
CycleComputed(outcome, t) ==
    [ pc |-> "refresh", refresh |-> outcome, next |-> t.next, ret |-> "none" ]
CycleReturned(t) ==
    [ pc |-> "return", refresh |-> "none", next |-> t.next, ret |-> t.next ]

notifyRouteListeners(a) == [a EXCEPT !.notifiedRoute = a.currentRoute]

\* refreshAvailableDevices after its await: the result of chooseAudioRoute.
refreshAvailableDevices(a, result) ==
    IF ~result.ok
    THEN [a EXCEPT !.bluetoothAvailable = FALSE]
    ELSE IF result.list # "none"
         THEN [a EXCEPT !.bluetoothAvailable = (result.list = "bt")]
         ELSE a

\* How a refresh ended, for the record of the cycle.
RefreshOutcome(result) ==
    IF ~result.ok THEN "threw"
    ELSE IF result.list = "none" THEN "kept" ELSE result.list

\* A cycle that ignores the availability: the order claim must notice it.
nextRouteNeverSkips(bt, route) ==
    CASE route = "earpiece" -> "speaker"
      [] route = "speaker" -> "bluetooth"
      [] OTHER -> "earpiece"

\* The two switch statements of cycleAudioOutput.
nextRouteOf(bt, route) ==
    IF bt
    THEN CASE route = "earpiece" -> "speaker"
           [] route = "speaker" -> "bluetooth"
           [] route = "bluetooth" -> "earpiece"
           [] OTHER -> "earpiece"
    ELSE CASE route = "earpiece" -> "speaker"
           [] route = "speaker" -> "earpiece"
           [] route = "bluetooth" -> "earpiece"
           [] OTHER -> "earpiece"

\* setAudioRoute up to its await: chooseAudioRoute when InCallManager runs,
\* Audio.setAudioModeAsync otherwise.
setAudioRoutePc(a) == IF a.inCallManagerStarted THEN "choose" ELSE "mode"

\* setAudioRoute after chooseAudioRoute settled.
afterChooseAudioRoute(a, route, result) ==
    IF ~result.ok
    THEN a
    ELSE LET a1 == IF result.list # "none"
                   THEN [a EXCEPT !.bluetoothAvailable = (result.list = "bt")]
                   ELSE a
             a2 == IF result.selected # ""
                   THEN [a1 EXCEPT !.currentRoute =
                           IF result.selected = "BLUETOOTH" THEN "bluetooth"
                           ELSE IF result.selected = "SPEAKER_PHONE" THEN "speaker"
                           ELSE "earpiece"]
                   ELSE [a1 EXCEPT !.currentRoute = route]
         IN  notifyRouteListeners(a2)

\* setAudioRoute after Audio.setAudioModeAsync settled.
afterSetAudioMode(a, route, result) ==
    IF ~result.ok THEN a
    ELSE notifyRouteListeners([a EXCEPT !.currentRoute = route])

\* cycleAudioOutput from the end of refreshAvailableDevices to the await of
\* setAudioRoute.
cycleAfterRefresh(a, t) ==
    [t EXCEPT !.pc = setAudioRoutePc(a),
              !.next = nextRouteOf(a.bluetoothAvailable, a.currentRoute)]

\* cycleAudioOutput up to its first native call. Without InCallManager the
\* refresh clears the flag and returns without one.
cycleAudioOutput(a) ==
    IF ~a.inCallManagerStarted
    THEN LET a1 == [a EXCEPT !.bluetoothAvailable = FALSE]
         IN  [ a |-> a1,
               t |-> cycleAfterRefresh(a1,
                        NewAudioTask("cycleAudioOutput", "refresh", "none")),
               step |-> "notStarted" ]
    ELSE [ a |-> a, t |-> NewAudioTask("cycleAudioOutput", "refresh", "none"),
           step |-> "none" ]

\* handleAudioDeviceChanged; spawn tells that setAudioRoute('earpiece') was
\* called.
handleAudioDeviceChanged(a, data) ==
    LET a1 == [a EXCEPT !.bluetoothAvailable = (data.list = "bt")]
        a2 == IF data.selected = "BLUETOOTH"
              THEN [a1 EXCEPT !.currentRoute = "bluetooth"]
              ELSE IF data.selected = "SPEAKER_PHONE"
              THEN [a1 EXCEPT !.currentRoute = "speaker"]
              ELSE IF data.selected = "EARPIECE"
              THEN [a1 EXCEPT !.currentRoute = "earpiece"]
              ELSE a1
    IN  IF a.bluetoothAvailable /\ ~a2.bluetoothAvailable
           /\ a2.currentRoute = "bluetooth"
        THEN [ a |-> a2, spawn |-> TRUE ]
        ELSE [ a |-> notifyRouteListeners(a2), spawn |-> FALSE ]

RemoveAt(s, i) == SubSeq(s, 1, i - 1) \o SubSeq(s, i + 1, Len(s))

\* The variables of the call service and of emitAsync.
callVars == << serviceVars, requests, connection >>

\* The user presses the audio-output button.
CycleAudioOutput ==
    /\ Len(audioTasks) < MaxAudioTasks
    /\ LET r == cycleAudioOutput(audio)
       IN  /\ audio' = r.a
           /\ audioTasks' = Append(audioTasks, r.t)
           /\ audioStep' = IF r.step = "none" THEN NoAudioStep
                           ELSE CycleComputed(r.step, r.t)
    /\ UNCHANGED callVars

\* configureForCall starts InCallManager: the first refresh is under way.
StartInCallManager ==
    /\ ~audio.inCallManagerStarted
    /\ Len(audioTasks) < MaxAudioTasks
    /\ audio' = [audio EXCEPT !.inCallManagerStarted = TRUE]
    /\ audioTasks' = Append(audioTasks,
                        NewAudioTask("startInCallManager", "refresh", "none"))
    /\ audioStep' = NoAudioStep
    /\ UNCHANGED callVars

\* resetAudioMode stops InCallManager.
StopInCallManager ==
    /\ audio.inCallManagerStarted
    /\ audio' = [audio EXCEPT !.inCallManagerStarted = FALSE,
                              !.btDetectionTimer = FALSE]
    /\ audioStep' = NoAudioStep
    /\ UNCHANGED << audioTasks, callVars >>

\* The timer of scheduleDelayedBtDetection fires.
BtDetectionTimerFires ==
    /\ audio.btDetectionTimer
    /\ audio' = [audio EXCEPT !.btDetectionTimer = FALSE]
    /\ IF audio.inCallManagerStarted
       THEN /\ Len(audioTasks) < MaxAudioTasks
            /\ audioTasks' = Append(audioTasks,
                                NewAudioTask("delayedBtDetection", "refresh", "none"))
       ELSE UNCHANGED audioTasks
    /\ audioStep' = NoAudioStep
    /\ UNCHANGED callVars

\* The native layer reports a change of the audio devices; the listener
\* passes it on while InCallManager runs.
HandleAudioDeviceChanged ==
    \E data \in AudioDeviceStatus :
      LET r == handleAudioDeviceChanged(audio, data)
      IN  /\ audio.inCallManagerStarted
          /\ audio' = r.a
          /\ IF r.spawn
             THEN /\ Len(audioTasks) < MaxAudioTasks
                  /\ audioTasks' = Append(audioTasks,
                        NewAudioTask("setAudioRoute", setAudioRoutePc(r.a), "earpiece"))
             ELSE UNCHANGED audioTasks
          /\ audioStep' = NoAudioStep
    /\ UNCHANGED callVars

\* A native call settles and its invocation runs on.
NativeSettles ==
    \E i \in DOMAIN audioTasks, result \in NativeResults :
      LET t == audioTasks[i]
          rest == RemoveAt(audioTasks, i)
      IN  /\ t.pc = "mode" => (result.list = "none" /\ result.selected = "")
          /\ t.pc = "refresh" => result.selected = ""
          /\ CASE t.pc = "refresh" /\ t.op = "cycleAudioOutput" ->
                    LET a1 == refreshAvailableDevices(audio, result)
                        t1 == cycleAfterRefresh(a1, t)
                    IN  /\ audio' = a1
                        /\ audioTasks' = [audioTasks EXCEPT ![i] = t1]
                        /\ audioStep' = CycleComputed(RefreshOutcome(result), t1)
               [] t.pc = "refresh" /\ t.op = "startInCallManager" ->
                    /\ audio' = [refreshAvailableDevices(audio, result)
                                   EXCEPT !.btDetectionTimer = TRUE]
                    /\ audioTasks' = rest
                    /\ audioStep' = NoAudioStep
               [] t.pc = "refresh" /\ t.op = "delayedBtDetection" ->
                    /\ audio' = notifyRouteListeners(
                                   refreshAvailableDevices(audio, result))
                    /\ audioTasks' = rest
                    /\ audioStep' = NoAudioStep
               [] t.pc \in {"choose", "mode"} ->
                    /\ audio' = IF t.pc = "choose"
                                THEN afterChooseAudioRoute(audio, t.next, result)
                                ELSE afterSetAudioMode(audio, t.next, result)
                    /\ audioTasks' = rest
                    /\ audioStep' = IF t.op = "cycleAudioOutput"
                                    THEN CycleReturned(t) ELSE NoAudioStep
          /\ UNCHANGED callVars

\* ---------------------------------------------------------------- connect()
\* The sockets created by io(): "opening" (not connected, the client tries),
\* "connected", "closed" (socket.disconnect() was called).  `handlers` counts
\* the sets of server-event handlers installed by setupSocketListeners,
\* `waiters` lists, in the order of registration, the connect() invocations
\* whose once('connect') / once('connect_error') listeners the socket holds.
SocketIds == 1..MaxSockets
ConnSlots == 1..MaxConnTasks
FreeConnTask == [pc |-> "free", sock |-> 0]

NewConn ==
    [ socket |-> 0, listenersSetup |-> FALSE, isConnecting |-> FALSE,
      created |-> 0,
      state |-> [s \in SocketIds |-> "none"],
      handlers |-> [s \in SocketIds |-> 0],
      waiters |-> [s \in SocketIds |-> <<>>],
      tasks |-> [i \in ConnSlots |-> FreeConnTask],
      ready |-> <<>>,
      op |-> "none", returned |-> "none" ]

ConnBegin(op) == [connection EXCEPT !.op = op, !.returned = "none"]

\* connect() returns or throws: the invocation is over.
ConnReturn(c, i, how) ==
    [c EXCEPT !.tasks[i] = FreeConnTask, !.returned = how]

WithoutWaiter(ws, i) == SelectSeq(ws, LAMBDA j : j # i)

\* this.socket.removeAllListeners(); this.socket.disconnect();
\* this.socket = null; this.listenersSetup = false;
dropSocket(c) ==
    LET s == c.socket IN
    [c EXCEPT !.handlers[s] = 0, !.waiters[s] = <<>>, !.state[s] = "closed",
              !.socket = 0, !.listenersSetup = FALSE]

\* A disconnect() that would leave listenersSetup as it is: the listener claim
\* must notice the next socket without handlers.
disconnectKeepsFlag(c) ==
    IF c.socket = 0 THEN c
    ELSE [dropSocket(c) EXCEPT !.listenersSetup = c.listenersSetup]

\* disconnect(), the part that concerns the socket.
disconnect(c) == IF c.socket = 0 THEN c ELSE dropSocket(c)

\* this.socket?.disconnect(); this.socket = null; this.listenersSetup = false;
\* (the catch block of the fresh connection; finally: isConnecting = false)
abandonSocket(c) ==
    [c EXCEPT !.state = IF c.socket = 0 THEN @
                        ELSE [@ EXCEPT ![c.socket] = "closed"],
              !.socket = 0, !.listenersSetup = FALSE, !.isConnecting = FALSE]

setupSocketListeners(c) ==
    IF c.socket = 0 \/ c.listenersSetup THEN c
    ELSE [c EXCEPT !.listenersSetup = TRUE, !.handlers[c.socket] = @ + 1]

\* connect() from `if (this.isConnecting)` to its next await.
freshConnection(c, i) ==
    IF c.isConnecting
    THEN [c EXCEPT !.tasks[i] = [pc |-> "poll", sock |-> 0]]
    ELSE [c EXCEPT !.isConnecting = TRUE,
                   !.tasks[i] = [pc |-> "token", sock |-> 0]]

\* connect() up to its first await.
connect(c, i) ==
    IF c.socket # 0 /\ c.state[c.socket] = "connected"
    THEN ConnReturn(c, i, "ok")
    ELSE IF c.socket # 0
         THEN [c EXCEPT !.waiters[c.socket] = Append(@, i),
                        !.tasks[i] = [pc |-> "reconnectWait", sock |-> c.socket]]
         ELSE freshConnection(c, i)

\* getAccessToken() settled.
afterToken(c, i, ok) ==
    IF ~ok
    THEN ConnReturn(abandonSocket(c), i, "error")
    ELSE LET c1 == IF c.socket # 0 THEN dropSocket(c) ELSE c
             s == c.created + 1
             c2 == [c1 EXCEPT !.created = s, !.socket = s, !.state[s] = "opening"]
             c3 == setupSocketListeners(c2)
         IN  [c3 EXCEPT !.waiters[s] = Append(@, i),
                        !.tasks[i] = [pc |-> "connectWait", sock |-> s]]

\* The promise an invocation awaits settled: connect() goes on.
afterWait(c, i, o) ==
    CASE c.tasks[i].pc = "reconnectWait" /\ o = "ok" -> ConnReturn(c, i, "ok")
      [] c.tasks[i].pc = "reconnectWait" /\ o = "err" ->
           IF c.socket = 0
           THEN ConnReturn(c, i, "error")   \* TypeError in the catch block
           ELSE freshConnection(dropSocket(c), i)
      [] c.tasks[i].pc = "connectWait" /\ o = "ok" ->
           ConnReturn([c EXCEPT !.isConnecting = FALSE], i, "ok")
      [] OTHER -> ConnReturn(abandonSocket(c), i, "error")

\* The once listeners of a socket run: each settles the promise of its
\* invocation, and the invocations go on in this order.
Notify(c, s, o) ==
    [c EXCEPT !.ready = [k \in DOMAIN c.waiters[s] |-> <<c.waiters[s][k], o>>],
              !.waiters[s] = <<>>]

ConnFrame == UNCHANGED << serviceVars, requests, audio, audioTasks, audioStep >>
ConnIdle == connection.ready = <<>>

\* Some part of the application calls connect().
ConnectCall ==
    \E i \in ConnSlots :
      /\ ConnIdle /\ connection.tasks[i].pc = "free"
      /\ \A j \in ConnSlots : j < i => connection.tasks[j].pc # "free"
      /\ connection' = connect(ConnBegin("connect"), i)
      /\ ConnFrame

\* The continuation of an invocation whose promise has settled.
ConnContinue ==
    /\ connection.ready # <<>>
    /\ LET h == Head(connection.ready)
       IN  connection' = afterWait([ConnBegin("continue") EXCEPT !.ready = Tail(@)],
                             h[1], h[2])
    /\ ConnFrame

TokenReturns ==
    \E i \in ConnSlots, ok \in BOOLEAN :
      /\ ConnIdle /\ connection.tasks[i].pc = "token"
      /\ ok => connection.created < MaxSockets
      /\ connection' = afterToken(ConnBegin("token"), i, ok)
      /\ ConnFrame

\* The polling of isConnecting ends (the flag is down, or the 12 s are over).
PollDone ==
    \E i \in ConnSlots :
      /\ ConnIdle /\ connection.tasks[i].pc = "poll"
      /\ connection' = ConnReturn(ConnBegin("poll"), i, "ok")
      /\ ConnFrame

\* The 5 s / 10 s timer of a waiting invocation fires.
ConnTimeout ==
    \E i \in ConnSlots :
      /\ ConnIdle /\ connection.tasks[i].pc \in {"reconnectWait", "connectWait"}
      /\ connection' = [ConnBegin("timeout")
                    EXCEPT !.ready = << <<i, "err">> >>,
                           !.waiters[connection.tasks[i].sock] = WithoutWaiter(@, i)]
      /\ ConnFrame

SocketConnects ==
    \E s \in SocketIds :
      /\ ConnIdle /\ connection.state[s] = "opening"
      /\ connection' = Notify([ConnBegin("connect event") EXCEPT !.state[s] = "connected"],
                        s, "ok")
      /\ ConnFrame

SocketConnectError ==
    \E s \in SocketIds :
      /\ ConnIdle /\ connection.state[s] = "opening" /\ connection.waiters[s] # <<>>
      /\ connection' = Notify(ConnBegin("connect_error"), s, "err")
      /\ ConnFrame

\* The transport of a connected socket is lost; socket.io tries to reconnect.
SocketDrops ==
    \E s \in SocketIds :
      /\ ConnIdle /\ connection.state[s] = "connected"
      /\ connection' = [ConnBegin("drop") EXCEPT !.state[s] = "opening"]
      /\ ConnFrame

\* Some part of the application calls disconnect().
DisconnectCall ==
    /\ ConnIdle
    /\ connection' = disconnect(ConnBegin("disconnect"))
    /\ CommitService(resetState(cleanupCall(Begin("disconnect()", 0))))

Init ==
    /\ callState = getDefaultState
    /\ media = NullMedia
    /\ consumers = NoConsumers
    /\ pendingProducers = <<>>
    /\ durationInterval = FALSE
    /\ resetTimers = 0
    /\ tasks = <<>>
    /\ orphans = {}
    /\ emitted = <<>>
    /\ notified = <<>>
    /\ incomingNotified = FALSE
    /\ lastOp = <<"init", 0>>
    /\ tags = {}
    /\ stepTask = NoTaskInfo
    /\ endRequested = {}
    /\ wasQueued = {}
    /\ calls = [c \in CallIds |-> "free"]
    /\ acceptedSent = {}
    /\ producerCall = [p \in ProducerIds |-> 0]
    /\ consumeReqs = ZeroCount
    /\ liveConsumers = ZeroCount
    /\ intervals = 0
    /\ partLog = <<>>
    /\ connected = TRUE
    /\ requests = [r \in RequestIds |-> NewRequest]
    /\ audio = NewAudioService
    /\ audioTasks = <<>>
    /\ audioStep = NoAudioStep
    /\ connection = NewConn

Next ==
    \/ InitiateCall(BOOLEAN)
    \/ InitiateGroupCall(BOOLEAN)
    \/ OnParticipantJoined(UserIds)
    \/ OnParticipantLeft(UserIds)
    \/ OnParticipantDeclined(UserIds)
    \/ DuplicateAccepted
    \/ SocketDisconnect
    \/ SocketConnect
    \/ OnRejoin(CallIds, BOOLEAN)
    \/ OnPeerDisconnected(CallIds)
    \/ OnPeerReconnected(CallIds)
    \/ OnPeerMuteChanged(UserIds)
    \/ ConnectCall \/ ConnContinue \/ TokenReturns \/ PollDone \/ ConnTimeout
    \/ SocketConnects \/ SocketConnectError \/ SocketDrops \/ DisconnectCall
    \/ EmitAsync
    \/ RequestTimeout
    \/ AckArrives
    \/ CycleAudioOutput
    \/ StartInCallManager
    \/ StopInCallManager
    \/ BtDetectionTimerFires
    \/ HandleAudioDeviceChanged
    \/ NativeSettles
    \/ AcceptCall
    \/ RejectCall
    \/ EndCall
    \/ ToggleMute
    \/ OnIncoming(CallIds, BOOLEAN, BOOLEAN)
    \/ ServerAccepted
    \/ OnRejected
    \/ OnEnded
    \/ OnTimeout
    \/ PeerProduces(ProducerIds)
    \/ DuplicatePush(ProducerIds)
    \/ ResetTimerFires
    \/ DurationTick
    \/ Resume(CallIds)

Spec == Init /\ [][Next]_vars


\* ------------------------------------------------------- scenario specifications
\* Next is the whole system.  The claims are checked under sub-relations of it
\* that keep one scenario each, so that every run is explored to its end.

\* Calls in both directions that nobody ends: the busy states.
NextBusy ==
    \/ UserInitiates({FALSE})
    \/ OnIncoming(CallIds, {FALSE}, {FALSE})
    \/ UserAccepts
    \/ ServerAccepted
    \/ Replies(CallIds)

SpecBusy == Init /\ [][NextBusy]_vars

\* One outgoing 1:1 call (audio or video) that the remote side accepts and the
\* local user ends at any moment; every await may also fail.
NextOutgoing ==
    \/ UserInitiates(BOOLEAN)
    \/ ServerAccepted
    \/ UserEnds
    \/ Resume(OneCall)
    \/ ResetTimerFires
    \/ DurationTick

SpecOutgoing == Init /\ [][NextOutgoing]_vars

\* initiate -> accepted -> endCall, in this order: the first call is placed
\* once, the server accepts a call that has not been ended, the user ends a
\* call that has been accepted.
FirstCall(vids) == FreeCalls = CallIds /\ UserInitiates(vids)
AcceptedInTime == endRequested = {} /\ ServerAccepted
EndsAcceptedCall == acceptedSent # {} /\ UserEnds

NextEnd ==
    \/ FirstCall(BOOLEAN)
    \/ AcceptedInTime
    \/ EndsAcceptedCall
    \/ Resume(OneCall)
    \/ ResetTimerFires
    \/ DurationTick

SpecEnd == Init /\ [][NextEnd]_vars

\* --------------------------------------------------------------------- claims
MediaFields == {"device", "sendTransport", "recvTransport", "producer",
                "videoProducer", "localStream", "localVideoStream"}

\* No media resource is attached to the service.
MediaDetached ==
    /\ \A f \in MediaFields : media[f] = "null"
    /\ consumers = NoConsumers

\* ... and none was lost while open.
MediaReleased == MediaDetached /\ orphans = {}

IncomingReject(c) == <<[event |-> "call:reject", callId |-> c, arg |-> 0]>>

\* C1: a call:incoming received while the status is connecting, ringing or
\* active emits call:reject for the incoming callId, leaves status, callId,
\* isCaller and the remote identity unchanged and does not notify the
\* incoming-call listeners.
C1_BusyIncomingAutoRejected ==
    [][ (lastOp'[1] = "call:incoming" /\ callState.status \in BusyStatuses)
        => /\ emitted' = IncomingReject(lastOp'[2])
           /\ callState'.status = callState.status
           /\ callState'.callId = callState.callId
           /\ callState'.isCaller = callState.isCaller
           /\ callState'.remoteUserId = callState.remoteUserId
           /\ ~incomingNotified' ]_vars

\* C2: after initiate -> accepted -> endCall the client comes to rest in idle
\* with every media resource closed and null.
C2_EndedCallHoldsNothing ==
    ( /\ callState.status = "idle"
      /\ endRequested # {}
      /\ tasks = <<>> /\ resetTimers = 0 )
    => MediaReleased

\* C3: status idle implies that no media resource is attached.
C3_IdleHasNoMedia ==
    callState.status = "idle" => MediaDetached

\* C4 (safety part): a step that makes the status terminal leaves no media
\* resource attached and no duration timer running.
C4_TerminalStepReleases ==
    [][ (callState'.status \in TerminalStatuses /\ callState'.status # callState.status)
        => (MediaDetached /\ ~durationInterval)' ]_vars


\* ------------------------------------------------------------------ C5, C6
EndRequest(grp, c) == [event |-> EndEvent(grp), callId |-> c, arg |-> 0]
Sent(m) == \E k \in DOMAIN emitted : emitted[k] = m

\* Nothing of the media layer is open: no handle field, no consumer of the
\* map, no handle that was lost while open.
NothingOpen ==
    /\ \A f \in MediaFields \cup {"consumer"} : media[f] # "open"
    /\ \A p \in ProducerIds : consumers[p] # "open"
    /\ orphans = {}

\* C5: when the last attempt of a setup fails and the status has been active
\* since the setup began, that attempt is attempt 2 (there is never a third),
\* the step sets the status to error, sends the end request of the call
\* (call:leaveGroup for a group call), leaves no media resource attached and
\* does not leave the status active.
C5_TwoFailuresEndTheCall ==
    /\ \A i \in DOMAIN tasks : tasks[i].attempt <= 2
    /\ ("retriesExhausted" \in tags /\ stepTask.stayed)
       => /\ stepTask.attempt = 2
          /\ \E k \in DOMAIN notified : notified[k] = "error"
          /\ Sent(EndRequest(callState.isGroupCall, callState.callId))
          /\ callState.callId # 0
          /\ MediaReleased
          /\ ~durationInterval
          /\ callState.status # "active"

\* C6: while the status stays active, nothing the failed attempt created is
\* open during the backoff that precedes the second attempt; a setup that
\* completes on its second attempt was retried once, completes in status
\* active and no end request has been sent for the call.
C6_RetrySucceedsCleanly ==
    /\ \A i \in DOMAIN tasks :
         (tasks[i].pc = "backoff" /\ tasks[i].stayed)
         => (tasks[i].attempt = 1 /\ NothingOpen)
    /\ ("retry" \in tags /\ stepTask.stayed) => stepTask.attempt = 1
    /\ ("setupComplete" \in tags /\ stepTask.attempt = 2 /\ stepTask.stayed)
       => /\ callState.status = "active"
          /\ callState.callId \notin endRequested

C6_SecondAttemptSucceeded ==
    "setupComplete" \in tags /\ stepTask.attempt = 2 /\ stepTask.stayed

\* An incoming call (1:1 or group, audio or video) that the user accepts and
\* the remote side may end; every await may fail.
NextRetry ==
    \/ OnIncoming(OneCall, BOOLEAN, BOOLEAN)
    \/ UserAccepts
    \/ PeerProduces(OneProducer)
    \/ OnEnded
    \/ Resume(OneCall)
    \/ ResetTimerFires
    \/ DurationTick

SpecRetry == Init /\ [][NextRetry]_vars



\* ------------------------------------------------------------------ C7, C8
\* An accepted incoming call whose peer produces at any moment.  Every
\* request is answered; only resumeConsumer may time out and the microphone
\* capture may fail (which fails the attempt and leads to the retry).
NextDrain ==
    \/ OnIncoming(OneCall, {FALSE}, {FALSE})
    \/ UserAccepts
    \/ PeerProduces(OneProducer)
    \/ Replies(OneCall)
    \/ Failures({"resume", "gumAudio"})

SpecDrain == Init /\ [][NextDrain]_vars

\* C7: when the setup of the call completes, every producer whose
\* notification had been queued has exactly one open consumer, and it is the
\* one the consumers map holds.
C7_QueuedProducerConsumedOnce ==
    ("setupComplete" \in tags /\ stepTask.stayed)
    => \A p \in wasQueued :
         producerCall[p] = callState.callId
         => (liveConsumers[p] = 1 /\ consumers[p] = "open")

\* The same call, audio or video, with no failure at all: every await resolves.
NextProducers ==
    \/ OnIncoming(OneCall, {FALSE}, BOOLEAN)
    \/ UserAccepts
    \/ PeerProduces(OneProducer)
    \/ Replies(OneCall)

SpecProducers == Init /\ [][NextProducers]_vars

\* C8: at most one consume request is issued and at most one consumer is
\* created per remote producer id.
C8_NoProducerConsumedTwice ==
    \A p \in ProducerIds : consumeReqs[p] <= 1 /\ liveConsumers[p] <= 1

\* ------------------------------------------------------------------ C9, C10
\* An accepted incoming call that the remote side may end, with a user who
\* presses the mute button at any moment.
NextMute ==
    \/ OnIncoming(OneCall, {FALSE}, {FALSE})
    \/ UserAccepts
    \/ ToggleMute
    \/ ToggleMuteTwice
    \/ Replies(OneCall)
    \/ OnEnded
    \/ ResetTimerFires

SpecMute == Init /\ [][NextMute]_vars

\* C9: whenever the local audio producer exists, it is paused exactly when
\* isMuted is true.
C9_ProducerPausedIffMuted ==
    media.producer # "null" => (media.producerPaused <=> callState.isMuted)

ToggleMsg(c, m) == [event |-> "call:toggleMute", callId |-> c, arg |-> B2N(m)]

\* C10: in status active two toggleMute calls in a row leave isMuted as it
\* was and emit call:toggleMute with the negated and then with the original
\* value; in any other status toggleMute changes and emits nothing.
C10_ToggleTwiceRestores ==
    [][ /\ (lastOp'[1] = "toggleMuteTwice" /\ callState.status = "active")
           => /\ callState'.isMuted = callState.isMuted
              /\ emitted' = << ToggleMsg(callState.callId, ~callState.isMuted),
                               ToggleMsg(callState.callId, callState.isMuted) >>
        /\ (lastOp'[1] \in {"toggleMute", "toggleMuteTwice"}
              /\ callState.status # "active")
           => /\ callState' = callState
              /\ media' = media
              /\ emitted' = <<>>
              /\ notified' = <<>> ]_vars

\* ------------------------------------------------------------------ C20
\* The steps that belong to a local initiateCall, and the call:incoming handler.
CallStartOps == {"initiateCall", "forceCleanup", "initiate", "call:incoming"}

\* C20: the status leaves idle only through a local initiateCall /
\* initiateGroupCall or a remote call:incoming event; any other event
\* received while the status is idle leaves it idle.
C20_IdleLeftOnlyByCallStart ==
    [][ (callState.status = "idle" /\ callState'.status # "idle")
        => lastOp'[1] \in CallStartOps ]_vars

\* ------------------------------------------------------------------ C12
\* C12: the duration increases only by a timer tick that occurs while the
\* status is active, and then by exactly 1; in every step taken while the
\* status is not active the duration is unchanged or reset to 0, and a timer
\* tick in any other status changes nothing.
C12_DurationGrowsOnlyWhileActive ==
    [][ /\ callState.status # "active"
           => callState'.duration \in {callState.duration, 0}
        /\ callState'.duration > callState.duration
           => /\ lastOp'[1] = "durationTick"
              /\ callState.status = "active"
              /\ callState'.duration = callState.duration + 1
        /\ (lastOp'[1] = "durationTick" /\ callState.status # "active")
           => (callState' = callState /\ notified' = <<>>) ]_vars

\* A tick of a timer that outlived its call: the status is terminal or idle.
C12_TickOutsideActive ==
    lastOp[1] = "durationTick" /\ callState.status \in TerminalStatuses \cup {"idle"}

\* ------------------------------------------------------------------ C11
\* One outgoing 1:1 audio call that nobody ends, placed when no
\* reset of an earlier attempt is pending: the remote side accepts it,
\* call:accepted may be delivered again once the call is set up, every await
\* may fail.
DialsAfterSettle == resetTimers = 0 /\ FirstCall({FALSE})
AcceptedAgainInCall ==
    callState.status = "active" /\ ~InFlight("accepted") /\ DuplicateAccepted

NextDial ==
    \/ DialsAfterSettle
    \/ AcceptedInTime
    \/ AcceptedAgainInCall
    \/ Resume(OneCall)
    \/ ResetTimerFires
    \/ DurationTick

SpecDial == Init /\ [][NextDial]_vars

NextRedial ==
    \/ InitiateCall({FALSE})
    \/ ServerAccepted
    \/ Replies(CallIds)
    \/ ResetTimerFires
    \/ DurationTick

SpecRedial == Init /\ [][NextRedial]_vars

\* C14: initiateCall invoked while the status is connecting, ringing or active
\* sends no request and leaves CallState, the duration timer, the reset
\* timers, the running invocations and all media resources unchanged.
C14_BusyInitiateChangesNothing ==
    [][ (lastOp'[1] = "initiateCall" /\ callState.status \in BusyStatuses)
        => /\ emitted' = <<>>
           /\ notified' = <<>>
           /\ callState' = callState
           /\ durationInterval' = durationInterval
           /\ resetTimers' = resetTimers
           /\ media' = media
           /\ consumers' = consumers
           /\ tasks' = tasks ]_vars

\* ------------------------------------------------------------------ C18
\* The initiator of one group call, whose invited users join, decline or
\* leave in any order; every await resolves.
FirstGroupCall == FreeCalls = CallIds /\ UserInitiatesGroup({FALSE})

NextGroup ==
    \/ FirstGroupCall
    \/ OnParticipantJoined(UserIds)
    \/ OnParticipantDeclined(UserIds)
    \/ OnParticipantLeft(UserIds)
    \/ Replies(OneCall)
    \/ DurationTick

SpecGroup == Init /\ [][NextGroup]_vars

\* The count the call screen shows: the active participants plus the local user.
ParticipantCount ==
    Cardinality({k \in DOMAIN callState.participants :
                    callState.participants[k].status = "active"}) + 1

StatusOf(u) ==
    {callState.participants[k].status :
        k \in {j \in DOMAIN callState.participants :
                  callState.participants[j].userId = u}}

\* Since the list was seeded with the three invited users (status ringing),
\* one call:participantDeclined and two call:participantJoined events were
\* pushed, one for each of these users.
OneDeclinedTwoJoined ==
    /\ Len(partLog) = NumParticipants
    /\ {partLog[k].userId : k \in DOMAIN partLog} = UserIds
    /\ \A k \in DOMAIN partLog :
         partLog[k].kind \in {"call:participantDeclined", "call:participantJoined"}
    /\ Cardinality({k \in DOMAIN partLog :
                       partLog[k].kind = "call:participantDeclined"}) = 1

\* C18: in a group call whose participants list holds three invited users
\* with status ringing, after one call:participantDeclined and two
\* call:participantJoined events for those users, in any order, the list
\* holds exactly those three users with statuses declined, active and active
\* and the participant count shown by the UI is 3.
C18_OneDeclinesTwoJoin ==
    (callState.isGroupCall /\ callState.callId # 0 /\ OneDeclinedTwoJoined)
    => /\ Len(callState.participants) = 3
       /\ \A k \in DOMAIN partLog :
            StatusOf(partLog[k].userId) =
                {IF partLog[k].kind = "call:participantDeclined"
                 THEN "declined" ELSE "active"}
       /\ ParticipantCount = 3

\* The decline arrived between the two joins.
C18_DeclinedBetweenJoins ==
    /\ callState.isGroupCall /\ callState.status = "active" /\ OneDeclinedTwoJoined
    /\ partLog[2].kind = "call:participantDeclined"

\* ------------------------------------------------------------------ C17
\* An accepted incoming call (1:1 or group) with a user who mutes, whose
\* socket loses and regains its connection and to which the server answers
\* with call:rejoin when no invocation is suspended; every await may fail.
RejoinAtRest == tasks = <<>> /\ OnRejoin(OneCall, {FALSE})

NextRejoin ==
    \/ OnIncoming(OneCall, BOOLEAN, {FALSE})
    \/ UserAccepts
    \/ ToggleMute
    \/ SocketDisconnect
    \/ SocketConnect
    \/ RejoinAtRest
    \/ Resume(OneCall)
    \/ ResetTimerFires
    \/ DurationTick

SpecRejoin == Init /\ [][NextRejoin]_vars

NewCallRequests == {"call:initiate", "call:initiateGroup", "call:accept", "call:joinGroup"}

\* C17: on call:rejoin the status becomes active with the callId of the
\* event, the duration timer runs and a media setup is started, while
\* duration, isMuted, isGroupCall, groupName and participants keep their
\* values and no call:initiate / call:accept request is sent.
C17_RejoinKeepsTheCall ==
    [][ lastOp'[1] = "call:rejoin"
        => /\ callState'.status = "active"
           /\ callState'.callId = lastOp'[2]
           /\ "attemptStart" \in tags'
           /\ durationInterval' /\ intervals' = 1
           /\ callState'.duration = callState.duration
           /\ callState'.isMuted = callState.isMuted
           /\ callState'.isGroupCall = callState.isGroupCall
           /\ callState'.groupName = callState.groupName
           /\ callState'.participants = callState.participants
           /\ \A k \in DOMAIN emitted' : emitted'[k].event \notin NewCallRequests ]_vars

\* A muted group call that has lasted a second has just been rejoined.
C17_RejoinedMutedGroupCall ==
    /\ lastOp[1] = "call:rejoin"
    /\ callState.duration > 0 /\ callState.isMuted
    /\ callState.isGroupCall /\ callState.groupName # 0
    /\ callState.participants # <<>>

\* ------------------------------------------------------------------ C13
\* One outgoing 1:1 audio call whose call:accepted may be delivered again and
\* for which the server may push call:rejoin; every await resolves.
NextTwice ==
    \/ FirstCall({FALSE})
    \/ AcceptedInTime
    \/ DuplicateAccepted
    \/ OnRejoin(OneCall, {FALSE})
    \/ Replies(OneCall)
    \/ DurationTick

SpecTwice == Init /\ [][NextTwice]_vars

\* The invocations that are inside setupMediasoupWithRetry.
SetupPcs == {"rtpCaps", "load", "createSend", "createRecv", "consume",
             "recvConsume", "resume", "getExisting", "gumAudio", "produceAudio",
             "gumVideo", "produceVideo", "backoff"}
SetupsInFlight ==
    {i \in DOMAIN tasks : tasks[i].pc \in SetupPcs /\ tasks[i].src # "newProducer"}

\* C13: at every moment at most one media setup sequence is in flight and no
\* transport, producer or capture handle is overwritten while the previous
\* one is still open, also when call:accepted is delivered twice or
\* call:rejoin arrives while a setup is running.
C13_OneSetupAtATime ==
    /\ Cardinality(SetupsInFlight) <= 1
    /\ orphans = {}

\* ------------------------------------------------------------------ C16
\* An accepted incoming 1:1 call whose socket loses its connection (and may
\* regain it); the server pushes neither call:rejoin nor call:ended.  Every
\* pending await settles, every armed timer fires.
NextLost ==
    \/ OnIncoming(OneCall, {FALSE}, {FALSE})
    \/ UserAccepts
    \/ SocketDisconnect
    \/ SocketConnect
    \/ Resume(OneCall)
    \/ ResetTimerFires
    \/ DurationTick

SpecLost ==
    /\ Init /\ [][NextLost]_vars
    /\ WF_vars(Resume(OneCall))
    /\ WF_vars(ResetTimerFires)
    /\ WF_vars(DurationTick)

\* C16: if the socket disconnects while the status is active and neither
\* call:rejoin nor call:ended arrives afterwards, the call is eventually ended
\* locally: the status reaches idle.
C16_LostCallEndsLocally ==
    (lastOp[1] = "disconnect" /\ callState.status = "active")
        ~> (callState.status = "idle")

\* ------------------------------------------------------------------ C15
\* emitAsync on its own: requests are issued one after the other on a socket
\* that loses and regains its connection; the acknowledgment of a request
\* that was sent arrives at any moment or never; an armed timer fires unless
\* it is cleared.
NextEmit ==
    \/ EmitAsync
    \/ AckArrives
    \/ RequestTimeout
    \/ SocketDisconnect
    \/ SocketConnect

SpecEmit ==
    /\ Init /\ [][NextEmit]_vars
    /\ WF_vars(RequestTimeout)

Settled == {"resolved", "rejected"}

\* What a settled request tells about its history.
SettledAsClaimed(q) ==
    /\ q.state = "resolved"
       => /\ q.sent /\ q.ack # "" /\ ~q.fired
          /\ q.value = ReplyOrEmpty(q.ack)
    /\ q.state = "rejected"
       => \/ q.error = "timed out" /\ q.sent /\ q.fired
          \/ q.error = "not connected" /\ ~q.sent /\ ~q.timer /\ q.ack = ""
    /\ q.state = "pending" => (q.sent /\ q.timer /\ q.ack = "" /\ ~q.fired)
    /\ q.state \in Settled => ~q.timer

NextAudio ==
    \/ CycleAudioOutput
    \/ StartInCallManager
    \/ StopInCallManager
    \/ BtDetectionTimerFires
    \/ HandleAudioDeviceChanged
    \/ NativeSettles

SpecAudio == Init /\ [][NextAudio]_vars

\* The availability a cycle call refreshes at its start: what the device
\* list of the refresh says; none without InCallManager or when the query
\* failed; the flag as it was (prior) when the result carries no list.
RefreshedAvailability(outcome, prior) ==
    CASE outcome = "bt" -> TRUE
      [] outcome = "nobt" -> FALSE
      [] outcome = "notStarted" -> FALSE
      [] outcome = "threw" -> FALSE
      [] outcome = "kept" -> prior

\* The order of the routes as claimed.
ClaimedNext(avail, from) ==
    IF avail
    THEN CASE from = "earpiece" -> "speaker"
           [] from = "speaker" -> "bluetooth"
           [] from = "bluetooth" -> "earpiece"
    ELSE CASE from = "earpiece" -> "speaker"
           [] from = "speaker" -> "earpiece"
           [] from = "bluetooth" -> "earpiece"

C21_ActiveOnlyFromRinging ==
    [][ /\ (callState'.status = "active" /\ callState.status # "active")
           => \/ /\ callState.status = "ringing"
                 /\ \/ lastOp'[1] = "accept"
                    \/ lastOp' = <<"call:accepted", callState.callId>>
              \/ callState.status = "connecting" /\ lastOp'[1] = "initiateGroup"
              \/ lastOp'[1] = "call:rejoin"
        /\ (lastOp'[1] = "call:accepted" /\ callState.status # "ringing")
           => /\ callState'.status = callState.status
              /\ notified' = <<>>
              /\ durationInterval' = durationInterval
              /\ intervals' = intervals
              /\ "attemptStart" \notin tags'
              /\ tasks' = tasks ]_vars

\* ------------------------------------------------------------------ C22
\* C22: when the status has left connecting while the call:initiate request
\* was pending (endCall during connecting resets the state to idle), the
\* reply to call:initiate does not change the status.
C22_LateInitiateReplyIgnored ==
    [][ (lastOp'[1] = "initiate" /\ callState.status # "connecting")
        => callState'.status = callState.status ]_vars

\* ------------------------------------------------------------------ C23
\* C23: when the ringing call has ended (call:ended / call:timeout) while the
\* callee's call:accept or call:joinGroup request was pending, the reply does
\* not set the status to active, does not start the duration timer and does
\* not start a media setup.
C23_LateAcceptReplyIgnored ==
    [][ (lastOp'[1] = "accept" /\ callState.status # "ringing")
        => /\ callState'.status # "active"
           /\ ~durationInterval'
           /\ intervals' = intervals
           /\ "attemptStart" \notin tags' ]_vars

\* ------------------------------------------------------------------ C24
NegotiationRequests ==
    {"getRouterRtpCapabilities", "createTransport", "consume",
     "getExistingProducers", "produce"}

\* C24: once the status has left active during a media setup, the setup
\* starts no further attempt and sends no further negotiation request, also
\* when the status changed during the backoff between the two attempts or
\* after the receive transport was created.
C24_AbandonedSetupSendsNothing ==
    (lastOp[1] \in SetupPcs /\ stepTask.src # "none" /\ ~stepTask.stayed)
    => /\ "retry" \notin tags
       /\ "attemptStart" \notin tags
       /\ \A k \in DOMAIN emitted : emitted[k].event \notin NegotiationRequests

\* ------------------------------------------------------------------ C25
\* C25: a socket disconnect while the status is active or ringing leaves
\* status, callId, isCaller and duration unchanged, sets the advisory error
\* text and releases the media resources; a disconnect in any other status
\* changes nothing; the connect event clears the error only if it is that
\* advisory text and changes no other field.
C25_DisconnectIsAdvisory ==
    [][ /\ (lastOp'[1] = "disconnect" /\ callState.status \in {"active", "ringing"})
           => /\ callState'.status = callState.status
              /\ callState'.callId = callState.callId
              /\ callState'.isCaller = callState.isCaller
              /\ callState'.duration = callState.duration
              /\ callState'.error = "lost"
              /\ MediaDetached'
        /\ (lastOp'[1] = "disconnect" /\ callState.status \notin {"active", "ringing"})
           => /\ callState' = callState
              /\ notified' = <<>>
              /\ media' = media
              /\ consumers' = consumers
              /\ pendingProducers' = pendingProducers
              /\ durationInterval' = durationInterval
        /\ lastOp'[1] = "connect"
           => /\ callState' = IF callState.error = "lost"
                              THEN [callState EXCEPT !.error = "null"]
                              ELSE callState
              /\ media' = media
              /\ consumers' = consumers
              /\ pendingProducers' = pendingProducers
              /\ durationInterval' = durationInterval ]_vars

\* The socket has just disconnected in a call that has lasted a second.
C25_DisconnectedInActiveCall ==
    /\ lastOp[1] = "disconnect"
    /\ callState.status = "active" /\ callState.duration = 1
    /\ callState.error = "lost" /\ ~connected

\* ------------------------------------------------------------------ C26
\* An accepted incoming 1:1 call whose peer loses and regains its connection;
\* the server pushes the peer events with the id of this call or of another
\* one, in any status; the remote side may end the call; every await resolves.
NextPeer ==
    \/ OnIncoming(OneCall, {FALSE}, {FALSE})
    \/ UserAccepts
    \/ OnPeerDisconnected(CallIds)
    \/ OnPeerReconnected(CallIds)
    \/ ToggleMute
    \/ OnEnded
    \/ Replies(OneCall)
    \/ ResetTimerFires
    \/ DurationTick

SpecPeer == Init /\ [][NextPeer]_vars

\* The suspended invocations, apart from their record of the status history.
Suspended(ts) == [i \in DOMAIN ts |-> [ts[i] EXCEPT !.stayed = TRUE]]

\* The step left everything but the CallState as it was.
OnlyCallStateChanges ==
    /\ media' = media
    /\ consumers' = consumers
    /\ pendingProducers' = pendingProducers
    /\ durationInterval' = durationInterval
    /\ intervals' = intervals
    /\ resetTimers' = resetTimers
    /\ Suspended(tasks') = Suspended(tasks)
    /\ emitted' = <<>>

\* C26: call:peerDisconnected for the current callId sets the advisory error
\* and isPeerMuted = true and leaves status, callId, the duration timer and
\* all media resources unchanged; call:peerReconnected for the current callId
\* sets error to null; either event carrying another callId changes nothing.
C26_PeerEventsAreAdvisory ==
    [][ /\ (lastOp' = <<"call:peerDisconnected", callState.callId>>)
           => /\ callState'.error = "peer" /\ callState'.isPeerMuted
              /\ callState'.status = callState.status
              /\ callState'.callId = callState.callId
              /\ callState'.duration = callState.duration
              /\ OnlyCallStateChanges
        /\ (lastOp' = <<"call:peerReconnected", callState.callId>>)
           => /\ callState'.error = "null"
              /\ callState'.status = callState.status
              /\ callState'.callId = callState.callId
              /\ callState'.duration = callState.duration
              /\ OnlyCallStateChanges
        /\ (lastOp'[1] \in {"call:peerDisconnected", "call:peerReconnected"}
              /\ lastOp'[2] # callState.callId)
           => /\ callState' = callState
              /\ notified' = <<>>
              /\ OnlyCallStateChanges ]_vars

\* The peer of a call that is set up and has lasted a second has just been
\* reported as disconnected.
C26_PeerLostInRunningCall ==
    /\ lastOp = <<"call:peerDisconnected", callState.callId>>
    /\ callState.status = "active" /\ callState.duration = 1
    /\ callState.error = "peer" /\ callState.isPeerMuted
    /\ media.producer = "open" /\ durationInterval

\* ------------------------------------------------------------------ C27
\* The initiator of one group call; other calls come in at any moment, the
\* user may hang up, every await may fail.
NextGroupCaller ==
    \/ FirstGroupCall
    \/ OnIncoming(CallIds, BOOLEAN, {FALSE})
    \/ UserEnds
    \/ Resume(CallIds)
    \/ ResetTimerFires
    \/ DurationTick

SpecGroupCaller == Init /\ [][NextGroupCaller]_vars

\* The group call this client has placed: from the status connecting that
\* initiateGroupCall sets until the status leaves connecting and active.
GroupCallPlaced ==
    /\ callState.isGroupCall /\ callState.isCaller
    /\ callState.status \in {"connecting", "active"}

NextGroupEvents ==
    \/ OnIncoming(OneCall, BOOLEAN, {FALSE})
    \/ UserAccepts
    \/ OnParticipantJoinedIn(CallIds, UserIds)
    \/ OnParticipantLeftIn(CallIds, UserIds)
    \/ OnParticipantDeclinedIn(CallIds, UserIds)
    \/ Replies(OneCall)
    \/ OnEnded
    \/ ResetTimerFires
    \/ DurationTick

SpecGroupEvents == Init /\ [][NextGroupEvents]_vars

GroupEvents == {"call:participantJoined", "call:participantLeft",
                "call:participantDeclined"}

\* C28: the group events call:participantJoined, call:participantLeft and
\* call:participantDeclined change only the participants list (and, for a
\* leaving participant, that participant's consumers): they never change the
\* local status, callId or duration, whatever the resulting participant
\* statuses are, and they change nothing when the call is not a group call or
\* the callId differs.
C28_GroupEventsChangeParticipantsOnly ==
    [][ lastOp'[1] \in GroupEvents
        => /\ callState'.status = callState.status
           /\ callState'.callId = callState.callId
           /\ callState'.duration = callState.duration
           /\ [callState' EXCEPT !.participants = callState.participants] = callState
           /\ media' = media
           /\ pendingProducers' = pendingProducers
           /\ durationInterval' = durationInterval
           /\ intervals' = intervals
           /\ resetTimers' = resetTimers
           /\ Suspended(tasks') = Suspended(tasks)
           /\ emitted' = <<>>
           /\ lastOp'[1] # "call:participantLeft" => consumers' = consumers
           /\ (~callState.isGroupCall \/ lastOp'[2] # callState.callId)
              => /\ callState' = callState
                 /\ consumers' = consumers
                 /\ notified' = <<>> ]_vars

\* Every user of the list of a running group call has declined, the last one
\* just now.
C28_EverybodyDeclined ==
    /\ lastOp = <<"call:participantDeclined", callState.callId>>
    /\ callState.isGroupCall /\ callState.status = "active"
    /\ callState.duration = 1 /\ media.producer = "open"
    /\ Len(callState.participants) = NumParticipants
    /\ \A k \in DOMAIN callState.participants :
          callState.participants[k].status = "declined"

\* ------------------------------------------------------------------ C29
\* The producerUserId of the call:newProducer notification of producer p.
ProducerUser(p) == p

\* A participant who has joined the current group call starts sending.
ParticipantProduces ==
    \E p \in ProducerIds :
      /\ \E k \in DOMAIN callState.participants :
            /\ callState.participants[k].userId = ProducerUser(p)
            /\ callState.participants[k].status = "active"
      /\ PeerProduces({p})

\* The initiator of one group call whose invited users join, send media and
\* leave; every await resolves.
NextLeave ==
    \/ FirstGroupCall
    \/ OnParticipantJoined(UserIds)
    \/ ParticipantProduces
    \/ OnParticipantLeft(UserIds)
    \/ Replies(OneCall)
    \/ DurationTick

SpecLeave == Init /\ [][NextLeave]_vars

\* C29: when call:participantLeft arrives for a participant of the current
\* group call, every consumer that was created for a producer of that
\* participant is closed and removed from the consumers map, so that after the
\* event no open consumer belongs to a participant who has left.
C29_LeaverHasNoConsumer ==
    [][ (lastOp'[1] = "call:participantLeft"
           /\ HasParticipant(callState.participants, lastOp'[2]))
        => \A p \in ProducerIds :
              ProducerUser(p) = lastOp'[2]
              => consumers'[p] = "none" /\ liveConsumers'[p] = 0 ]_vars

\* ------------------------------------------------------------------ C30
\* cleanupCall as a function of the state it is invoked in.  A handle is not
\* created ("null"), in use ("open"), already closed ("closed") or fails on
\* close ("broken").
HandleStates == {"null", "open", "closed", "broken"}
StreamStates == {"null", "open", "broken"}

MediaStates ==
    [ device : {"null", "open"}, sendTransport : HandleStates,
      recvTransport : HandleStates, producer : HandleStates,
      producerPaused : {FALSE}, videoProducer : HandleStates,
      consumer : HandleStates, localStream : StreamStates,
      localVideoStream : StreamStates ]

InitCleanup ==
    /\ callState = getDefaultState
    /\ media \in MediaStates
    /\ consumers \in { f \in [ProducerIds -> {"none", "open", "closed", "broken"}] :
                         \A p \in ProducerIds \ OneProducer : f[p] = "none" }
    /\ pendingProducers \in {<<>>, <<[callId |-> 1, producerId |-> 1]>>}
    /\ durationInterval \in BOOLEAN
    /\ intervals = B2N(durationInterval)
    /\ resetTimers = 0
    /\ tasks = <<>>
    /\ orphans = {}
    /\ emitted = <<>>
    /\ notified = <<>>
    /\ incomingNotified = FALSE
    /\ lastOp = <<"init", 0>>
    /\ tags = {}
    /\ stepTask = NoTaskInfo
    /\ endRequested = {}
    /\ wasQueued = {}
    /\ calls = [c \in CallIds |-> "free"]
    /\ acceptedSent = {}
    /\ producerCall = [p \in ProducerIds |-> 0]
    /\ consumeReqs = ZeroCount
    /\ liveConsumers = ZeroCount
    /\ partLog = <<>>
    /\ connected = TRUE
    /\ requests = [r \in RequestIds |-> NewRequest]
    /\ audio = NewAudioService
    /\ audioTasks = <<>>
    /\ audioStep = NoAudioStep
    /\ connection = NewConn

\* The exception, if any, that leaves the function.
Escaped(w) == IF w.raised THEN Tag(w, "raised") ELSE w

CleanupCall ==
    /\ lastOp[1] = "init"
    /\ Commit(Escaped(cleanupCallStmts(Begin("cleanupCall", 0))))
CleanupCallAgain ==
    /\ lastOp = <<"cleanupCall", 0>>
    /\ Commit(Escaped(cleanupCallStmts(Begin("cleanupCall", 1))))

NextCleanup == CleanupCall \/ CleanupCallAgain

SpecCleanup == InitCleanup /\ [][NextCleanup]_vars

\* C30: cleanupCall is idempotent and total: invoked in any state, with any
\* subset of the media resources created, already closed, or failing on close,
\* it never raises an error and leaves every resource handle null, the
\* consumers map and the pending-producer queue empty and the duration timer
\* stopped; invoking it a second time changes nothing.  Its result is the one
\* of the single-step cleanupCall that the handlers of the model use.
C30_CleanupCallTotalIdempotent ==
    [][ lastOp'[1] = "cleanupCall"
        => /\ "raised" \notin tags'
           /\ \A f \in MediaFields \cup {"consumer"} : media'[f] = "null"
           /\ consumers' = NoConsumers
           /\ pendingProducers' = <<>>
           /\ ~durationInterval' /\ intervals' = 0
           /\ callState' = callState
           /\ media' = cleanupCall(Self).media
           /\ consumers' = cleanupCall(Self).consumers
           /\ pendingProducers' = cleanupCall(Self).pendingProducers
           /\ durationInterval' = cleanupCall(Self).durationInterval
           /\ intervals' = cleanupCall(Self).intervals
           /\ lastOp[1] = "cleanupCall"
              => /\ media' = media /\ consumers' = consumers
                 /\ pendingProducers' = pendingProducers
                 /\ durationInterval' = durationInterval
                 /\ "closeFailed" \notin tags' ]_vars

\* cleanupCall has just run in a state where a close failed, and has left
\* nothing behind.
C30_CleanedUpAfterFailingClose ==
    /\ lastOp = <<"cleanupCall", 0>> /\ "closeFailed" \in tags
    /\ MediaDetached /\ media.consumer = "null"
    /\ pendingProducers = <<>> /\ ~durationInterval

NextConnect ==
    \/ ConnectCall
    \/ ConnContinue
    \/ TokenReturns
    \/ PollDone
    \/ ConnTimeout
    \/ SocketConnects
    \/ SocketConnectError
    \/ SocketDrops
    \/ DisconnectCall

SpecConnect == Init /\ [][NextConnect]_vars

\* C32: after any sequence of connect(), disconnect(), connection timeouts,
\* connection errors and reconnects of an existing socket, the server-pushed
\* event handlers are installed exactly once on the socket currently held by
\* the service: never twice on the same socket instance and never missing on
\* a socket that connect() has returned successfully for.
C32_HandlersInstalledOnce ==
    /\ \A s \in SocketIds : connection.handlers[s] <= 1
    /\ connection.socket # 0 => connection.handlers[connection.socket] = 1 /\ connection.listenersSetup
    /\ (connection.returned = "ok" /\ connection.socket # 0) => connection.handlers[connection.socket] = 1

\* connect() has just returned for a socket that is connected, the second
\* one that was created (the first one was given up or disconnected).
C32_ConnectedOnLaterSocket ==
    /\ connection.returned = "ok" /\ connection.socket > 1
    /\ connection.state[connection.socket] = "connected"
    /\ connection.handlers[connection.socket] = 1

\* ------------------------------------------------------------------ C33
\* Calls that follow one another: calls come in, the user places, accepts and
\* rejects calls, the remote side ends them; every await resolves.
NextSettle ==
    \/ OnIncoming(CallIds, {FALSE}, {FALSE})
    \/ UserInitiates({FALSE})
    \/ UserAccepts
    \/ UserRejects
    \/ OnEnded
    \/ Replies(CallIds)
    \/ ResetTimerFires

SpecSettle == Init /\ [][NextSettle]_vars

\* C33: a reset-to-idle timer scheduled by the terminal transition of one call
\* never resets the state of a later call: if a new call (initiateCall,
\* initiateGroupCall or call:incoming) starts during the settle delay of the
\* previous call, the pending reset of the previous call does not put the new
\* call's state back to idle.  (A status connecting or ringing is always the
\* one of a call that has not had a terminal transition.)
C33_ResetSparesLaterCall ==
    [][ (lastOp'[1] = "resetTimer" /\ callState.status \in {"connecting", "ringing"})
        => callState' = callState ]_vars


\* ------------------------------------------------------------------ C34
\* Two incoming 1:1 audio calls, the second one arriving when the first is
\* over and the state is idle again; the user accepts, the remote side may
\* end a call, every await may fail.
IncomingAtRest == callState.status = "idle" /\ OnIncoming(CallIds, {FALSE}, {FALSE})

NextStale ==
    \/ IncomingAtRest
    \/ UserAccepts
    \/ OnEnded
    \/ Resume(CallIds)
    \/ ResetTimerFires

SpecStale == Init /\ [][NextStale]_vars

\* No suspended invocation belongs to the current call.
OnlyOlderInvocations ==
    /\ callState.callId # 0
    /\ \A i \in DOMAIN tasks : tasks[i].callId # callState.callId

\* C34: the failure handler of a media setup that belongs to an earlier call
\* (status error followed by endCall) leaves the status and the media of a
\* later call with another callId unchanged and sends no end request for it.
C34_StaleFailureSparesLaterCall ==
    [][ ("handlerFail" \in tags' /\ OnlyOlderInvocations
         /\ callState.status \in {"ringing", "active"})
        => /\ callState'.status = callState.status
           /\ media' = media
           /\ emitted' = <<>> ]_vars


\* ------------------------------------------------------------------ C35
\* Incoming 1:1 audio calls that the user may accept and for which the server
\* pushes call:rejected, call:ended or call:timeout; every await resolves.
NextTerminal ==
    \/ OnIncoming(CallIds, {FALSE}, {FALSE})
    \/ UserAccepts
    \/ OnRejected
    \/ OnEnded
    \/ OnTimeout
    \/ Replies(CallIds)
    \/ ResetTimerFires
    \/ DurationTick

SpecTerminal == Init /\ [][NextTerminal]_vars

TerminalEvents == {"call:rejected", "call:ended", "call:timeout"}

\* C35: a call:rejected, call:ended or call:timeout event whose callId is not
\* the current callId leaves CallState, the duration timer and the media
\* resources of the current call unchanged.
C35_TerminalEventOfOtherCallIgnored ==
    [][ (lastOp'[1] \in TerminalEvents /\ lastOp'[2] # callState.callId
         /\ callState.status \in {"ringing", "active"})
        => /\ callState' = callState
           /\ durationInterval' = durationInterval
           /\ media' = media
           /\ consumers' = consumers ]_vars


\* ------------------------------------------------------------------ C36
\* C36: in every reachable state, status ringing or active implies that
\* callId is set, and status idle implies that callId is null.
C36_StatusAgreesWithCallId ==
    /\ callState.status \in {"ringing", "active"} => callState.callId # 0
    /\ callState.status = "idle" => callState.callId = 0


\* ------------------------------------------------------------------ C37
\* A user who may call initiateCall at any moment while calls from other
\* users come in; every await resolves.
NextWindow ==
    \/ InitiateCall({FALSE})
    \/ OnIncoming(CallIds, {FALSE}, {FALSE})
    \/ Replies(CallIds)
    \/ ResetTimerFires

SpecWindow == Init /\ [][NextWindow]_vars

\* An initiateCall / initiateGroupCall invocation has passed its busy check
\* and has not completed.
InitiationPending ==
    \E i \in DOMAIN tasks :
        /\ tasks[i].src \in {"initiateCall", "initiateGroupCall"}
        /\ tasks[i].pc \in {"forceCleanup", "initiate", "initiateGroup"}

\* C37: while an initiation is pending, a second initiateCall is refused
\* (no request sent, no new invocation, CallState untouched) and a
\* call:incoming is auto-rejected without touching CallState.
C37_PendingInitiationOwnsState ==
    [][ InitiationPending
        => /\ lastOp'[1] = "initiateCall"
                => /\ emitted' = <<>>
                   /\ Len(tasks') = Len(tasks)
           /\ lastOp'[1] = "call:incoming"
                => /\ callState' = callState
                   /\ \E k \in DOMAIN emitted' : emitted'[k].event = "call:reject" ]_vars


\* ------------------------------------------------------------------ C38
\* An accepted incoming 1:1 call whose peer mutes and unmutes and loses and
\* regains its connection; every await resolves.
NextPeerMute ==
    \/ OnIncoming(OneCall, {FALSE}, {FALSE})
    \/ UserAccepts
    \/ OnPeerMuteChanged(OneCall)
    \/ OnPeerDisconnected(OneCall)
    \/ OnPeerReconnected(OneCall)
    \/ Replies(OneCall)
    \/ DurationTick

SpecPeerMute == Init /\ [][NextPeerMute]_vars
\* C38: in an active call that showed no error, a call:peerReconnected that
\* directly follows the call:peerDisconnected of the current call restores
\* isPeerMuted to what it was before the disconnect and error to null.
C38_ReconnectRestoresPeerState ==
    [][ (/\ lastOp = <<"call:peerDisconnected", callState.callId>>
         /\ lastOp' = <<"call:peerReconnected", callState.callId>>
         /\ callState.status = "active"
         /\ "hadError" \notin tags)
        => /\ callState'.isPeerMuted = ("peerWasMuted" \in tags)
           /\ callState'.error = "null" ]_vars


\* ------------------------------------------------------------------ C39
\* Incoming 1:1 audio calls that the user accepts and mutes and the remote
\* side ends, while the server pushes call:peerMuteChanged in any status;
\* every await resolves.
NextFresh ==
    \/ OnIncoming(CallIds, {FALSE}, {FALSE})
    \/ UserAccepts
    \/ ToggleMute
    \/ OnPeerMuteChanged(OneCall)
    \/ OnEnded
    \/ Replies(CallIds)
    \/ ResetTimerFires
    \/ DurationTick

SpecFresh == Init /\ [][NextFresh]_vars

\* C39: a call that call:incoming puts into ringing starts with duration 0,
\* isMuted, isPeerMuted and isCameraOn false and no participants.
C39_IncomingCallStartsClean ==
    [][ (lastOp'[1] = "call:incoming" /\ callState'.status = "ringing"
         /\ callState'.callId = lastOp'[2] /\ emitted' = <<>>)
        => /\ callState'.duration = 0
           /\ ~callState'.isMuted
           /\ ~callState'.isPeerMuted
           /\ ~callState'.isCameraOn
           /\ callState'.participants = <<>> ]_vars


\* ------------------------------------------------------------------ C40
\* C40: when cycleAudioOutput returns, the route it returns is currentRoute
\* and the route last notified to the route listeners.
C40_ReturnedRouteIsCurrent ==
    audioStep.pc = "return"
        => /\ audioStep.ret = audio.currentRoute
           /\ audioStep.ret = audio.notifiedRoute

====
